---- MODULE Spec2Model ----
(***************************************************************************)
(* CloudBooter: free-tier quota validation and provisioning workflow.      *)
(*                                                                         *)
(* GCP side: cloud/GCP/src/cloudbooter/free_tier.py (limits table and      *)
(* validate_proposed_config) and cloud/GCP/src/cloudbooter/cli.py (the     *)
(* deploy / validate / inventory commands).                                *)
(* OCI side: cloud/OCI/src/cloudbooter/cli.py (CloudBooterWorkflow).       *)
(*                                                                         *)
(* Text is modelled as a sequence of pieces.  The pieces of a prefix that  *)
(* the code tests with str.startswith are single characters; the pieces    *)
(* a record is split on ("|") are separate pieces; a number is the piece   *)
(* ToString(n) on the GCP side and its decimal digits, one piece each, on  *)
(* the OCI side, where numbers are parsed back out of the text.            *)
(***************************************************************************)
EXTENDS Integers, Sequences, FiniteSets, TLC

VARIABLES
    LIMITS,        \* free_tier.LIMITS, the module-level singleton
    gcp_pc,        \* position of the running GCP command
    gcp_cmd,       \* which GCP operation is running
    gcp_args,      \* its arguments
    gcp_errors,    \* the list validate_proposed_config returned to it
    gcp_exit,      \* process exit status: <<>> while running, <<code>> once exited
    gcp_raised,    \* exception that ended the operation, "none" otherwise
    gcp_written,   \* files written by the current command, in order
    gcp_outdir,    \* files present in the output directory
    gcp_tf,        \* terraform commands run by the current command, in order, each with its return code
    gcp_fresh,     \* result of the last GCPFreeTierLimits() construction, <<>> if none
    gcp_inv,       \* the ResourceInventory being filled by the inventory command
    gcp_auth,      \* what the last detect_auth_pattern() returned and whether it probed the metadata server
    oci_pc,        \* position of CloudBooterWorkflow: the step that runs next
    oci_mode,      \* "run": CloudBooterWorkflow.run(); "call": methods called one by one on a workflow object
    runtime,       \* RuntimeConfig (the options that steer the workflow)
    tenancy,       \* what the OCI API reports for the tenancy
    oci_context,   \* self.oci_context
    resources,     \* self.resources (ExistingResources)
    planned,       \* the PlannedConfig in hand
    oci_raised,    \* the exception that ended the step or the run
    oci_trace,     \* the steps of this run that have completed, in order
    oci_files,     \* files written to terraform_dir by this run
    oci_ssh,       \* key files present in ./ssh_keys
    oci_tf,        \* terraform commands started by this run, in order
    oci_host       \* the machine the workflow runs on: runs started, wall clock, ./ssh_keys, renders written to terraform_dir

gcp_vars == <<LIMITS, gcp_pc, gcp_cmd, gcp_args, gcp_errors, gcp_exit, gcp_raised,
              gcp_written, gcp_outdir, gcp_tf, gcp_fresh, gcp_inv, gcp_auth>>

oci_vars == <<oci_pc, oci_mode, runtime, tenancy, oci_context, resources, planned, oci_raised, oci_trace, oci_files, oci_ssh, oci_tf, oci_host>>

vars == <<gcp_vars, oci_vars>>

(***************************************************************************)
(* Text helpers                                                            *)
(***************************************************************************)
None == "<None>"

\* str.startswith
StartsWith(s, prefix) ==
    /\ Len(s) >= Len(prefix)
    /\ SubSeq(s, 1, Len(prefix)) = prefix

\* sep.join(items) for a tuple of one-piece strings
RECURSIVE Join(_, _)
Join(sep, items) ==
    IF Len(items) = 0 THEN <<>>
    ELSE IF Len(items) = 1 THEN <<items[1]>>
    ELSE <<items[1], sep>> \o Join(sep, Tail(items))

\* x in tuple
InTuple(x, t) == \E i \in DOMAIN t : t[i] = x

\* Python truthiness of an optional string
Truthy(s) == s # None /\ s # ""

ERROR_ == <<"E", "R", "R", "O", "R">>
ERROR_COLON == ERROR_ \o <<":">>

(***************************************************************************)
(* free_tier.py: the limits table                                          *)
(***************************************************************************)
\* GCPFreeTierLimits(): the field defaults of the frozen dataclass.
\* free_artifact_registry_gb = 0.5 is kept as the pair <<1, 2>>.
GCPFreeTierLimits ==
    [ free_machine_type |-> "e2-micro",
      free_compute_hours_per_month |-> 744,
      free_compute_regions |-> <<"us-west1", "us-central1", "us-east1">>,
      free_standard_pd_gb |-> 30,
      free_compute_egress_gb |-> 1,
      free_storage_gb |-> 5,
      free_storage_regions |-> <<"us-east1", "us-west1", "us-central1">>,
      free_storage_class_a_ops |-> 5000,
      free_storage_class_b_ops |-> 50000,
      free_storage_egress_gb |-> 100,
      free_firestore_storage_gib |-> 1,
      free_firestore_reads_per_day |-> 50000,
      free_firestore_writes_per_day |-> 20000,
      free_firestore_deletes_per_day |-> 20000,
      free_firestore_egress_gib_month |-> 10,
      free_bigquery_query_tib |-> 1,
      free_bigquery_storage_gib |-> 10,
      free_pubsub_gib_month |-> 10,
      free_functions_invocations |-> 2000000,
      free_functions_gb_seconds |-> 400000,
      free_functions_ghz_seconds |-> 200000,
      free_functions_egress_gb |-> 5,
      free_cloudrun_requests |-> 2000000,
      free_cloudrun_gb_seconds |-> 360000,
      free_cloudrun_vcpu_seconds |-> 180000,
      free_cloudrun_egress_gb |-> 1,
      free_secret_versions |-> 6,
      free_secret_access_ops |-> 10000,
      free_secret_rotation_notifications |-> 3,
      free_artifact_registry_gb |-> <<1, 2>>,
      free_build_minutes |-> 2500,
      free_logging_gib_per_project |-> 50,
      free_gke_clusters |-> 1,
      free_app_engine_f1_hours_per_day |-> 28,
      free_app_engine_b1_hours_per_day |-> 9,
      cost_trap_cloud_dns |-> TRUE,
      cost_trap_cloud_nat |-> TRUE,
      cost_trap_load_balancer |-> TRUE ]

\* What an unfrozen dataclass would do with obj.name = value.
PlainSetattr(obj, name, value) ==
    [obj |-> [obj EXCEPT ![name] = value], raised |-> "none"]

\* obj.name = value on a @dataclass(frozen=True) instance: __setattr__ raises
\* FrozenInstanceError (a subclass of AttributeError) and stores nothing.
FrozenSetattr(obj, name, value) ==
    [obj |-> obj, raised |-> "FrozenInstanceError"]

\* dataclass __eq__: same class and equal field tuples.
DataclassEq(a, b) == a = b

(***************************************************************************)
(* free_tier.py: validate_proposed_config                                  *)
(***************************************************************************)
MachineTypeError(machine_type, limits) ==
    ERROR_COLON \o <<" Machine type '", machine_type, "' is not Always Free. ",
                     "Only '", limits.free_machine_type, "' is free. ",
                     "Set GCP_ALLOW_PAID_RESOURCES=true to override.">>

RegionError(region, limits) ==
    ERROR_COLON \o <<" Region '", region, "' is not Always Free for Compute Engine. ",
                     "Free regions: ">>
                \o Join(", ", limits.free_compute_regions) \o <<".">>

DiskError(boot_disk_size_gb, limits) ==
    ERROR_COLON \o <<" Boot disk ", ToString(boot_disk_size_gb),
                     " GB exceeds Always Free cap ",
                     "of ", ToString(limits.free_standard_pd_gb), " GB standard PD.">>

StorageRegionError(storage_region, limits) ==
    ERROR_COLON \o <<" Cloud Storage region '", storage_region, "' is not Always Free. ",
                     "Free regions: ">>
                \o Join(", ", limits.free_storage_regions) \o <<".">>

\* The four checks, each as the list of entries it appends.
MachineTypeCheck(machine_type, limits) == IF machine_type # limits.free_machine_type THEN <<MachineTypeError(machine_type, limits)>> ELSE <<>>
RegionCheck(region, limits) == IF ~InTuple(region, limits.free_compute_regions) THEN <<RegionError(region, limits)>> ELSE <<>>
DiskCheck(boot_disk_size_gb, limits) == IF boot_disk_size_gb > limits.free_standard_pd_gb THEN <<DiskError(boot_disk_size_gb, limits)>> ELSE <<>>
StorageRegionCheck(storage_region, limits) == IF Truthy(storage_region) /\ ~InTuple(storage_region, limits.free_storage_regions) THEN <<StorageRegionError(storage_region, limits)>> ELSE <<>>

\* Mutant: the disk check written with >= instead of >.
validate_disk_ge(machine_type, region, boot_disk_size_gb, storage_region, allow_paid_resources) ==
    LET limits == LIMITS
        e3 == IF boot_disk_size_gb >= limits.free_standard_pd_gb THEN <<DiskError(boot_disk_size_gb, limits)>> ELSE <<>>
    IN  IF ~allow_paid_resources
        THEN MachineTypeCheck(machine_type, limits) \o RegionCheck(region, limits) \o e3 \o StorageRegionCheck(storage_region, limits)
        ELSE <<>>

\* Mutant: the override flag is consulted for the machine type only.
validate_override_partial(machine_type, region, boot_disk_size_gb, storage_region, allow_paid_resources) ==
    LET limits == LIMITS
    IN  (IF ~allow_paid_resources THEN MachineTypeCheck(machine_type, limits) ELSE <<>>)
        \o RegionCheck(region, limits) \o DiskCheck(boot_disk_size_gb, limits) \o StorageRegionCheck(storage_region, limits)

\* Mutant: the checks chained with elif, so the first failure hides the rest.
validate_elif(machine_type, region, boot_disk_size_gb, storage_region, allow_paid_resources) ==
    LET limits == LIMITS
        e1 == MachineTypeCheck(machine_type, limits)
        e2 == RegionCheck(region, limits)
        e3 == DiskCheck(boot_disk_size_gb, limits)
        e4 == StorageRegionCheck(storage_region, limits)
    IN  IF allow_paid_resources THEN <<>>
        ELSE IF e1 # <<>> THEN e1 ELSE IF e2 # <<>> THEN e2 ELSE IF e3 # <<>> THEN e3 ELSE e4

\* Mutant: a validator with a memory, lenient once a deployment has been written.
validate_after_deploy(machine_type, region, boot_disk_size_gb, storage_region, allow_paid_resources) ==
    LET limits == LIMITS
    IN  IF ~allow_paid_resources /\ gcp_outdir = {}
        THEN MachineTypeCheck(machine_type, limits) \o RegionCheck(region, limits) \o DiskCheck(boot_disk_size_gb, limits) \o StorageRegionCheck(storage_region, limits)
        ELSE <<>>

validate_proposed_config(machine_type, region, boot_disk_size_gb, storage_region, allow_paid_resources) ==
    LET limits == LIMITS
        e1 == MachineTypeCheck(machine_type, limits)
        e2 == RegionCheck(region, limits)
        e3 == DiskCheck(boot_disk_size_gb, limits)
        e4 == StorageRegionCheck(storage_region, limits)
    IN  IF ~allow_paid_resources THEN e1 \o e2 \o e3 \o e4 ELSE <<>>

(***************************************************************************)
(* GCP cli.py: the commands                                                *)
(***************************************************************************)
MachineTypes == {"e2-micro", "n1-standard-1"}
Regions == {"us-west1", "us-central1", "us-east1", "europe-west1"}
DiskSizes == {1, 30, 31, 200}
StorageRegions == {None, "", "us-east1", "europe-west1"}
SshKeyOptions == {<<>>, <<"@", "key.pub">>}
ReturnCodes == {0, 1, 2}
SetattrTargets == {<<"free_machine_type", "n1-standard-1">>, <<"free_standard_pd_gb", 500>>, <<"free_compute_regions", <<"europe-west1">>>>}

DeployFiles == <<"provider.tf", "variables.tf", "data_sources.tf", "main.tf", "cloud-init.yaml">>
\* Mutant: the plan made before the working directory is initialised.
TerraformCmdsPlanFirst == <<"plan", "init", "apply">>
TerraformCmds == <<"init", "plan", "apply">>

NoArgs == [cmd |-> "none"]

IsHardError(e) == StartsWith(e, ERROR_COLON)
IsErrorLoose(e) == StartsWith(e, ERROR_)

\* Mutant: the prefix filter misspelt, so that no entry is ever a hard error.
IsMisspeltError(e) == StartsWith(e, <<"E", "r", "r", "o", "r", ":">>)
HardErrorsMisspelt(errors) == SelectSeq(errors, IsMisspeltError)

\* deploy line 54: hard_errors = [e for e in errors if e.startswith("ERROR:")]
HardErrors(errors) == SelectSeq(errors, IsHardError)

\* Mutant: the validate command reports the errors but always exits 0.
ValidateExitCodeZero(errors) == 0

\* validate line 114: 1 if any(e.startswith("ERROR") for e in errors) else 0
ValidateExitCode(errors) == IF \E i \in DOMAIN errors : IsErrorLoose(errors[i]) THEN 1 ELSE 0

\* _gcloud (inventory.py 32-45): None when gcloud is missing, exits non-zero,
\* prints no JSON or times out; the parsed list otherwise.
GcloudFailed == [ok |-> FALSE, data |-> <<>>]
GcloudLists == {<<>>, <<[name |-> <<"res-1">>]>>}
GcloudBucketLists == {<<>>, <<[name |-> <<"bkt-1", "/">>]>>, <<[name |-> <<>>]>>}
GcloudOutcomes(lists) == {GcloudFailed} \cup {[ok |-> TRUE, data |-> l] : l \in lists}
\* _sdk_list_instances / _sdk_list_buckets (inventory.py 48-78): [] on any exception.
SdkLists == {<<>>, <<[name |-> <<"sdk-1">>]>>}
\* _sdk_list_instances hands back what the client lists (58-63): instance
\* objects of the SDK, which have a name attribute and no get method.  The
\* tests put dicts in their place.
SdkInstanceLists == SdkLists \cup {<<[name |-> <<"sdk-2">>, object |-> "compute_v1.Instance"]>>}
SdkResults(class) == IF class = "instances" THEN SdkInstanceLists ELSE SdkLists
HasGet(inst) == "object" \notin DOMAIN inst

InventoryClasses == <<"vpcs", "subnets", "firewalls", "instances", "disks", "static_ips", "buckets", "firestore_dbs">>

\* str.rstrip("/")
RECURSIVE RStripSlash(_)
RStripSlash(name) == IF name # <<>> /\ name[Len(name)] = "/" THEN RStripSlash(SubSeq(name, 1, Len(name) - 1)) ELSE name

Names(list) == {list[i].name : i \in DOMAIN list}

\* The keys one class's query adds to the inventory (inventory.py 85-153).
InventoryKeys(class, gcloud, sdk) ==
    IF class = "instances" THEN
        LET instances == IF ~gcloud.ok THEN sdk ELSE gcloud.data
        IN  {n \in Names(instances) : n # <<>>}
    ELSE IF class = "buckets" THEN
        IF ~gcloud.ok THEN Names(sdk)
        ELSE {n \in {RStripSlash(m) : m \in Names(gcloud.data)} : n # <<>>}
    ELSE IF gcloud.ok THEN Names(gcloud.data) ELSE {}

\* The query of a class has failed when gcloud gave None and, for the two
\* classes with an SDK fallback, the fallback gave [] as well.
QueryFailed(class, gcloud, sdk) == ~gcloud.ok /\ (class \in {"instances", "buckets"} => sdk = <<>>)

\* The classes with an SDK fallback call it when gcloud gave None (110-114, 138-141).
FallbackUsed(class, gcloud) == class \in {"instances", "buckets"} /\ ~gcloud.ok

\* inst.get("name") (116) on the items of the instances list: AttributeError
\* on the first item that has no get method.
NameLookupRaises(class, gcloud, sdk) ==
    class = "instances" /\ FallbackUsed(class, gcloud) /\ \E i \in DOMAIN sdk : ~HasGet(sdk[i])

\* What the query of a class with a fallback was answered.
QueryRecord(class, gcloud, sdk) ==
    IF class \in {"instances", "buckets"}
    THEN {[class |-> class, gcloud |-> gcloud, fallback |-> FallbackUsed(class, gcloud), sdk |-> IF FallbackUsed(class, gcloud) THEN sdk ELSE <<>>]}
    ELSE {}

\* ResourceInventory() (inventory.py 20-29, 83)
ResourceInventory == [c \in {InventoryClasses[i] : i \in DOMAIN InventoryClasses} |-> {}]
NoInventory == [step |-> 0, inv |-> ResourceInventory, failed |-> {}, queries |-> {}]

(***************************************************************************)
(* auth.py: detect_auth_pattern                                            *)
(***************************************************************************)
\* What a path holds: nothing, or a file whose text json.load turns into a
\* dict with a "type", a dict without one, a list, or a parse error.
Missing == [exists |-> FALSE, json |-> "none", type |-> None]
JsonFile(json, type) == [exists |-> TRUE, json |-> json, type |-> type]
FileStates == {Missing, JsonFile("dict", "service_account"), JsonFile("dict", "external_account"), JsonFile("dict", None), JsonFile("list", None), JsonFile("error", None)}

\* The environment of the call: the three variables, the files behind the two
\* paths, and whether the metadata server answers.
AuthEnvs ==
    [GCP_CREDENTIALS_FILE : {None, "", "/gcp.json"},
     GOOGLE_APPLICATION_CREDENTIALS : {None, "/gac.json"},
     GCP_IMPERSONATE_SERVICE_ACCOUNT : {None, "", "sa@proj.iam.gserviceaccount.com"},
     gcp_json : FileStates,
     gac_json : {Missing, JsonFile("dict", "service_account")},
     metadata_answers : BOOLEAN]

\* Path(path).exists() and the file there
FileAt(env, path) == IF path = "/gcp.json" THEN env.gcp_json ELSE IF path = "/gac.json" THEN env.gac_json ELSE Missing

NoAuth == [pattern |-> "none", probed |-> FALSE]

\* Mutant: the impersonation variable consulted before the credentials file.
detect_impersonation_first(env) ==
    LET creds_file == IF Truthy(env.GCP_CREDENTIALS_FILE) THEN env.GCP_CREDENTIALS_FILE ELSE env.GOOGLE_APPLICATION_CREDENTIALS
    IN  IF Truthy(env.GCP_IMPERSONATE_SERVICE_ACCOUNT) THEN [pattern |-> "impersonation", probed |-> FALSE]
        ELSE IF Truthy(creds_file) /\ FileAt(env, creds_file).exists
        THEN [pattern |-> IF FileAt(env, creds_file).type = "service_account" THEN "sa_key" ELSE "wif", probed |-> FALSE]
        ELSE [pattern |-> IF env.metadata_answers THEN "metadata_server" ELSE "adc", probed |-> TRUE]

\* detect_auth_pattern (auth.py 22-50): the pattern returned, and whether
\* urlopen was called on the way
detect_auth_pattern(env) ==
    LET creds_file == IF Truthy(env.GCP_CREDENTIALS_FILE) THEN env.GCP_CREDENTIALS_FILE ELSE env.GOOGLE_APPLICATION_CREDENTIALS
    IN  IF Truthy(creds_file) /\ FileAt(env, creds_file).exists
        THEN LET info == FileAt(env, creds_file)
             IN  IF info.json = "error" THEN [pattern |-> "wif", probed |-> FALSE]
                 ELSE IF info.json = "list" THEN [pattern |-> "wif", probed |-> FALSE]
                 ELSE IF info.type = "service_account" THEN [pattern |-> "sa_key", probed |-> FALSE]
                 ELSE [pattern |-> "wif", probed |-> FALSE]
        ELSE IF Truthy(env.GCP_IMPERSONATE_SERVICE_ACCOUNT) THEN [pattern |-> "impersonation", probed |-> FALSE]
        ELSE IF env.metadata_answers THEN [pattern |-> "metadata_server", probed |-> TRUE]
        ELSE [pattern |-> "adc", probed |-> TRUE]

GcpReady == gcp_pc = "idle"

\* A call of detect_auth_pattern(), as build_google_credentials and the tests make it.
GcpDetectAuth ==
    /\ GcpReady
    /\ \E env \in AuthEnvs :
          /\ gcp_args' = [cmd |-> "detect_auth", env |-> env]
          /\ gcp_auth' = detect_auth_pattern(env)
    /\ gcp_pc' = "done"
    /\ gcp_cmd' = "detect_auth"
    /\ gcp_errors' = <<>>
    /\ gcp_exit' = <<>>
    /\ gcp_raised' = "none"
    /\ gcp_written' = <<>>
    /\ gcp_inv' = NoInventory
    /\ gcp_tf' = <<>>
    /\ gcp_fresh' = <<>>
    /\ UNCHANGED <<LIMITS, gcp_outdir>>
    /\ UNCHANGED oci_vars

\* A direct call of validate_proposed_config, as the library's callers and tests make it.
GcpCall ==
    /\ GcpReady
    /\ \E m \in MachineTypes, r \in Regions, d \in DiskSizes, s \in StorageRegions, a \in BOOLEAN :
          /\ gcp_args' = [cmd |-> "call", machine_type |-> m, region |-> r, disk_size |-> d, storage_region |-> s, allow_paid |-> a]
          /\ gcp_errors' = validate_proposed_config(m, r, d, s, a)
    /\ gcp_pc' = "done"
    /\ gcp_cmd' = "call"
    /\ gcp_exit' = <<>>
    /\ gcp_raised' = "none"
    /\ gcp_written' = <<>>
    /\ gcp_inv' = NoInventory
    /\ gcp_tf' = <<>>
    /\ gcp_fresh' = <<>>
    /\ gcp_auth' = NoAuth
    /\ UNCHANGED <<LIMITS, gcp_outdir>>
    /\ UNCHANGED oci_vars

\* cloudbooter-gcp validate (cli.py 97-114): the whole command.
GcpValidateCmd ==
    /\ GcpReady
    /\ \E m \in MachineTypes, r \in Regions, d \in DiskSizes, a \in BOOLEAN :
          LET errors == validate_proposed_config(m, r, d, None, a)
          IN  /\ gcp_args' = [cmd |-> "validate", machine_type |-> m, region |-> r, disk_size |-> d, allow_paid |-> a]
              /\ gcp_errors' = errors
              /\ gcp_exit' = IF errors = <<>> THEN <<0>> ELSE <<ValidateExitCode(errors)>>
    /\ gcp_pc' = "done"
    /\ gcp_cmd' = "validate"
    /\ gcp_raised' = "none"
    /\ gcp_written' = <<>>
    /\ gcp_inv' = NoInventory
    /\ gcp_tf' = <<>>
    /\ gcp_fresh' = <<>>
    /\ gcp_auth' = NoAuth
    /\ UNCHANGED <<LIMITS, gcp_outdir>>
    /\ UNCHANGED oci_vars

\* cloudbooter-gcp deploy, lines 47-58: validate, and exit 1 on a hard error.
GcpDeployValidate ==
    /\ GcpReady
    /\ \E r \in Regions, d \in DiskSizes, a \in BOOLEAN, auto \in BOOLEAN, k \in SshKeyOptions :
          LET errors == validate_proposed_config("e2-micro", r, d, None, a)
          IN  /\ gcp_args' = [cmd |-> "deploy", machine_type |-> "e2-micro", region |-> r, disk_size |-> d, allow_paid |-> a, auto_deploy |-> auto, ssh_public_key |-> k]
              /\ gcp_errors' = errors
              /\ IF HardErrors(errors) # <<>>
                 THEN gcp_exit' = <<1>> /\ gcp_pc' = "done"
                 ELSE gcp_exit' = <<>> /\ gcp_pc' = "prepare"
    /\ gcp_cmd' = "deploy"
    /\ gcp_raised' = "none"
    /\ gcp_written' = <<>>
    /\ gcp_inv' = NoInventory
    /\ gcp_tf' = <<>>
    /\ gcp_fresh' = <<>>
    /\ gcp_auth' = NoAuth
    /\ UNCHANGED <<LIMITS, gcp_outdir>>
    /\ UNCHANGED oci_vars

\* deploy, lines 60-72: zone, SSH key (read from a file when given as @path;
\* a missing file raises and the uncaught exception ends the process with
\* status 1), output directory.
GcpDeployPrepare ==
    /\ gcp_pc = "prepare"
    /\ \E key_file_exists \in BOOLEAN :
          IF StartsWith(gcp_args.ssh_public_key, <<"@">>) /\ ~key_file_exists
          THEN /\ gcp_raised' = "FileNotFoundError"
               /\ gcp_exit' = <<1>>
               /\ gcp_pc' = "done"
          ELSE /\ gcp_pc' = "write"
               /\ UNCHANGED <<gcp_raised, gcp_exit>>
    /\ UNCHANGED <<LIMITS, gcp_cmd, gcp_args, gcp_errors, gcp_written, gcp_outdir, gcp_tf, gcp_fresh, gcp_inv, gcp_auth>>
    /\ UNCHANGED oci_vars

\* deploy, lines 74-94: the five write_text calls in order, one per step;
\* after the last, terraform runs only under --auto-deploy.
GcpDeployWrite ==
    /\ gcp_pc = "write"
    /\ LET f == DeployFiles[Len(gcp_written) + 1]
           last == Len(gcp_written) + 1 = Len(DeployFiles)
       IN  /\ gcp_written' = Append(gcp_written, f)
           /\ gcp_outdir' = gcp_outdir \cup {f}
           /\ IF ~last THEN UNCHANGED <<gcp_pc, gcp_exit>>
              ELSE IF gcp_args.auto_deploy THEN gcp_pc' = "terraform" /\ UNCHANGED gcp_exit
              ELSE gcp_pc' = "done" /\ gcp_exit' = <<0>>
    /\ UNCHANGED <<LIMITS, gcp_cmd, gcp_args, gcp_errors, gcp_raised, gcp_tf, gcp_fresh, gcp_inv, gcp_auth>>
    /\ UNCHANGED oci_vars

\* _terraform_deploy (cli.py 145-158): init, plan, apply; the first non-zero
\* return code is the process exit status.
GcpTerraformCmd ==
    /\ gcp_pc = "terraform"
    /\ \E rc \in ReturnCodes :
          LET c == TerraformCmds[Len(gcp_tf) + 1]
              last == Len(gcp_tf) + 1 = Len(TerraformCmds)
          IN  /\ gcp_tf' = Append(gcp_tf, [cmd |-> c, returncode |-> rc])
              /\ IF rc # 0 THEN gcp_exit' = <<rc>> /\ gcp_pc' = "done"
                 ELSE IF last THEN gcp_exit' = <<0>> /\ gcp_pc' = "done"
                 ELSE UNCHANGED <<gcp_pc, gcp_exit>>
    /\ UNCHANGED <<LIMITS, gcp_cmd, gcp_args, gcp_errors, gcp_raised, gcp_written, gcp_outdir, gcp_fresh, gcp_inv, gcp_auth>>
    /\ UNCHANGED oci_vars

\* LIMITS.<name> = <value>, as test_dataclass_is_frozen attempts it.
GcpSetattr ==
    /\ GcpReady
    /\ \E t \in SetattrTargets :
          LET r == FrozenSetattr(LIMITS, t[1], t[2])
          IN  /\ LIMITS' = r.obj
              /\ gcp_raised' = r.raised
              /\ gcp_args' = [cmd |-> "setattr", name |-> t[1], value |-> t[2]]
    /\ gcp_pc' = "done"
    /\ gcp_cmd' = "setattr"
    /\ gcp_errors' = <<>>
    /\ gcp_exit' = <<>>
    /\ gcp_written' = <<>>
    /\ gcp_inv' = NoInventory
    /\ gcp_tf' = <<>>
    /\ gcp_fresh' = <<>>
    /\ gcp_auth' = NoAuth
    /\ UNCHANGED gcp_outdir
    /\ UNCHANGED oci_vars

\* GCPFreeTierLimits(): a fresh default instance.
GcpConstruct ==
    /\ GcpReady
    /\ gcp_fresh' = <<GCPFreeTierLimits>>
    /\ gcp_auth' = NoAuth
    /\ gcp_pc' = "done"
    /\ gcp_cmd' = "construct"
    /\ gcp_args' = [cmd |-> "construct"]
    /\ gcp_errors' = <<>>
    /\ gcp_exit' = <<>>
    /\ gcp_raised' = "none"
    /\ gcp_written' = <<>>
    /\ gcp_inv' = NoInventory
    /\ gcp_tf' = <<>>
    /\ UNCHANGED <<LIMITS, gcp_outdir>>
    /\ UNCHANGED oci_vars

\* cloudbooter-gcp inventory (cli.py 117-126): start of run_full_inventory.
GcpInventoryStart ==
    /\ GcpReady
    /\ gcp_args' = [cmd |-> "inventory"]
    /\ gcp_cmd' = "inventory"
    /\ gcp_pc' = "inventory"
    /\ gcp_inv' = NoInventory
    /\ gcp_errors' = <<>>
    /\ gcp_exit' = <<>>
    /\ gcp_raised' = "none"
    /\ gcp_written' = <<>>
    /\ gcp_tf' = <<>>
    /\ gcp_fresh' = <<>>
    /\ gcp_auth' = NoAuth
    /\ UNCHANGED <<LIMITS, gcp_outdir>>
    /\ UNCHANGED oci_vars

\* run_full_inventory (inventory.py 81-155): the query of the next resource
\* class; after the last one the dashboard is printed and the command ends.
GcpInventoryQuery ==
    /\ gcp_pc = "inventory"
    /\ LET class == InventoryClasses[gcp_inv.step + 1]
           last == gcp_inv.step + 1 = Len(InventoryClasses)
       IN  \E g \in GcloudOutcomes(IF class = "buckets" THEN GcloudBucketLists ELSE GcloudLists), sdk \in SdkResults(class) :
              IF NameLookupRaises(class, g, sdk)
              THEN /\ gcp_inv' = [gcp_inv EXCEPT !.queries = @ \cup QueryRecord(class, g, sdk)]
                   /\ gcp_raised' = "AttributeError"
                   /\ gcp_pc' = "done"
                   /\ gcp_exit' = <<1>>
              ELSE /\ gcp_inv' = [step |-> gcp_inv.step + 1,
                                  inv |-> [gcp_inv.inv EXCEPT ![class] = @ \cup InventoryKeys(class, g, sdk)],
                                  failed |-> IF QueryFailed(class, g, sdk) THEN gcp_inv.failed \cup {class} ELSE gcp_inv.failed,
                                  queries |-> gcp_inv.queries \cup QueryRecord(class, g, sdk)]
                   /\ IF last THEN gcp_pc' = "done" /\ gcp_exit' = <<0>> ELSE UNCHANGED <<gcp_pc, gcp_exit>>
                   /\ UNCHANGED gcp_raised
    /\ UNCHANGED <<LIMITS, gcp_cmd, gcp_args, gcp_errors, gcp_written, gcp_outdir, gcp_tf, gcp_fresh, gcp_auth>>
    /\ UNCHANGED oci_vars

\* The operation has returned to its caller; the next one starts afresh.
\* LIMITS (process-wide) and the output directory persist.
GcpReturn ==
    /\ gcp_pc = "done"
    /\ gcp_pc' = "idle"
    /\ gcp_cmd' = "none"
    /\ gcp_args' = NoArgs
    /\ gcp_errors' = <<>>
    /\ gcp_exit' = <<>>
    /\ gcp_raised' = "none"
    /\ gcp_written' = <<>>
    /\ gcp_tf' = <<>>
    /\ gcp_fresh' = <<>>
    /\ gcp_auth' = NoAuth
    /\ gcp_inv' = NoInventory
    /\ UNCHANGED <<LIMITS, gcp_outdir>>
    /\ UNCHANGED oci_vars

GcpInit ==
    /\ LIMITS = GCPFreeTierLimits
    /\ gcp_pc = "idle"
    /\ gcp_cmd = "none"
    /\ gcp_args = NoArgs
    /\ gcp_errors = <<>>
    /\ gcp_exit = <<>>
    /\ gcp_raised = "none"
    /\ gcp_written = <<>>
    /\ gcp_outdir = {}
    /\ gcp_tf = <<>>
    /\ gcp_fresh = <<>>
    /\ gcp_inv = NoInventory
    /\ gcp_auth = NoAuth

GcpNext ==
    \/ GcpCall
    \/ GcpValidateCmd
    \/ GcpDeployValidate
    \/ GcpDeployPrepare
    \/ GcpDeployWrite
    \/ GcpTerraformCmd
    \/ GcpSetattr
    \/ GcpConstruct
    \/ GcpInventoryStart
    \/ GcpInventoryQuery
    \/ GcpDetectAuth
    \/ GcpReturn


(***************************************************************************)
(* OCI cli.py: constants                                                   *)
(***************************************************************************)
FREE_TIER_MAX_AMD_INSTANCES == 2
FREE_TIER_AMD_SHAPE == "VM.Standard.E2.1.Micro"
FREE_TIER_MAX_ARM_OCPUS == 4
FREE_TIER_MAX_ARM_MEMORY_GB == 24
FREE_TIER_ARM_SHAPE == "VM.Standard.A1.Flex"
FREE_TIER_MAX_STORAGE_GB == 200
FREE_TIER_MIN_BOOT_VOLUME_GB == 47
FREE_TIER_MAX_ARM_INSTANCES == 4
FREE_TIER_MAX_VCNS == 2

(***************************************************************************)
(* OCI text helpers: records joined with "|" and split again               *)
(***************************************************************************)
DigitChars == <<"0", "1", "2", "3", "4", "5", "6", "7", "8", "9">>
IsDigit(c) == \E d \in DOMAIN DigitChars : DigitChars[d] = c
DigitValue(c) == (CHOOSE d \in DOMAIN DigitChars : DigitChars[d] = c) - 1

\* str(n) of an int: its decimal digits, one piece each, after "-" when negative
RECURSIVE Decimal(_)
Decimal(n) == IF n < 10 THEN <<DigitChars[n + 1]>> ELSE Decimal(n \div 10) \o <<DigitChars[(n % 10) + 1]>>
Str(n) == IF n < 0 THEN <<"-">> \o Decimal(0 - n) ELSE Decimal(n)

\* int(s) of a text made of decimal digits
RECURSIVE ParseDigits(_)
ParseDigits(s) == IF s = <<>> THEN 0 ELSE ParseDigits(SubSeq(s, 1, Len(s) - 1)) * 10 + DigitValue(s[Len(s)])

\* str.split("|"): the fields between the separators.
RECURSIVE SplitPipe(_)
SplitPipe(s) ==
    IF \A i \in DOMAIN s : s[i] # "|" THEN <<s>>
    ELSE LET k == CHOOSE i \in DOMAIN s : s[i] = "|" /\ \A j \in 1..(i - 1) : s[j] # "|"
         IN  <<SubSeq(s, 1, k - 1)>> \o SplitPipe(SubSeq(s, k + 1, Len(s)))

\* int(fields[index]) with Python's 0-based index: the value, or the
\* exception raised (IndexError for a missing field, ValueError for a field
\* that is not a decimal number).
FieldAsInt(fields, index) ==
    IF index + 1 > Len(fields) THEN [ok |-> FALSE, raised |-> "IndexError", value |-> 0]
    ELSE IF fields[index + 1] # <<>> /\ \A i \in DOMAIN fields[index + 1] : IsDigit(fields[index + 1][i])
         THEN [ok |-> TRUE, raised |-> "none", value |-> ParseDigits(fields[index + 1])]
         ELSE [ok |-> FALSE, raised |-> "ValueError", value |-> 0]

\* int(entry.split("|")[index])
IntField(entry, index) == FieldAsInt(SplitPipe(entry), index)

\* entry.split("|")[0]
FirstField(entry) == SplitPipe(entry)[1]

\* dict[key] = value on a dict kept as the sequence of its items in insertion order
DictSet(d, key, value) ==
    IF \E i \in DOMAIN d : d[i].key = key
    THEN [i \in DOMAIN d |-> IF d[i].key = key THEN [key |-> key, value |-> value] ELSE d[i]]
    ELSE Append(d, [key |-> key, value |-> value])

\* list(d.values())
DictValues(d) == [i \in DOMAIN d |-> d[i].value]

RECURSIVE SumSeq(_)
SumSeq(xs) == IF xs = <<>> THEN 0 ELSE Head(xs) + SumSeq(Tail(xs))

Max(a, b) == IF a >= b THEN a ELSE b
\* A min that hands back its first argument.
MinFirst(a, b) == a
Min(a, b) == IF a <= b THEN a ELSE b

(***************************************************************************)
(* OCI cli.py: inventory                                                   *)
(***************************************************************************)
\* ExistingResources()
ExistingResources == [vcns |-> <<>>, subnets |-> <<>>, internet_gateways |-> <<>>, route_tables |-> <<>>, security_lists |-> <<>>, amd_instances |-> <<>>, arm_instances |-> <<>>, boot_volumes |-> <<>>, block_volumes |-> <<>>]

\* lines 276-284: the record kept for one listed instance
InstanceBase(instance) == instance.display_name \o <<"|", instance.lifecycle_state, "|", instance.shape, "|", instance.public_ip, "|", instance.private_ip>>
ArmRecord(instance) == InstanceBase(instance) \o <<"|">> \o Str(instance.ocpus) \o <<"|">> \o Str(instance.memory_in_gbs)

\* _inventory_compute_instances (246-284), folded over the listed instances
RECURSIVE InventoryInstances(_, _)
InventoryInstances(res, instances) ==
    IF instances = <<>> THEN res
    ELSE LET instance == Head(instances)
             next ==
                IF instance.lifecycle_state = "TERMINATED" THEN res
                ELSE IF instance.shape = FREE_TIER_AMD_SHAPE
                     THEN [res EXCEPT !.amd_instances = DictSet(@, instance.id, InstanceBase(instance))]
                ELSE IF instance.shape = FREE_TIER_ARM_SHAPE
                     THEN [res EXCEPT !.arm_instances = DictSet(@, instance.id, ArmRecord(instance))]
                ELSE res
         IN  InventoryInstances(next, Tail(instances))

\* _inventory_networking_resources (286-338): the AVAILABLE VCNs
RECURSIVE InventoryVcns(_, _)
InventoryVcns(res, vcns) ==
    IF vcns = <<>> THEN res
    ELSE LET vcn == Head(vcns)
             next == IF vcn.lifecycle_state # "AVAILABLE" THEN res
                     ELSE [res EXCEPT !.vcns = DictSet(@, vcn.id, vcn.display_name \o <<"|", vcn.cidr_block>>)]
         IN  InventoryVcns(next, Tail(vcns))

\* lines 348-352 and 359-363: the record kept for one AVAILABLE volume
VolumeRecord(volume) == volume.display_name \o <<"|">> \o Str(volume.size_in_gbs)

RECURSIVE InventoryVolumes(_, _)
InventoryVolumes(d, volumes) ==
    IF volumes = <<>> THEN d
    ELSE LET v == Head(volumes)
         IN  InventoryVolumes(IF v.lifecycle_state = "AVAILABLE" THEN DictSet(d, v.id, VolumeRecord(v)) ELSE d, Tail(volumes))

\* _inventory_storage_resources (340-363)
InventoryStorage(res, boots, blocks) == [res EXCEPT !.boot_volumes = InventoryVolumes(@, boots), !.block_volumes = InventoryVolumes(@, blocks)]

\* _inventory_all_resources (241-244)
inventory_all_resources(res, instances, vcns, boots, blocks) == InventoryStorage(InventoryVcns(InventoryInstances(res, instances), vcns), boots, blocks)

(***************************************************************************)
(* OCI cli.py: _available_resources and _validate_proposed_config          *)
(***************************************************************************)
\* first + rest, unless the evaluation of either raised
AddInts(first, rest) ==
    IF ~first.ok THEN first
    ELSE IF ~rest.ok THEN rest
    ELSE [ok |-> TRUE, raised |-> "none", value |-> first.value + rest.value]

\* sum(int(v.split("|")[index]) for v in values): the sum, or the first exception
RECURSIVE SumIntField(_, _)
SumIntField(values, index) ==
    IF values = <<>> THEN [ok |-> TRUE, raised |-> "none", value |-> 0]
    ELSE AddInts(IntField(Head(values), index), SumIntField(Tail(values), index))

\* lines 443-448: the 4-tuple returned, unless one of the sums raised
AvailableFrom(used_amd, used_arm_ocpus, used_arm_memory, used_boot, used_block) ==
    IF ~used_arm_ocpus.ok THEN [ok |-> FALSE, raised |-> used_arm_ocpus.raised, amd |-> 0, arm_ocpus |-> 0, arm_memory |-> 0, storage |-> 0]
    ELSE IF ~used_arm_memory.ok THEN [ok |-> FALSE, raised |-> used_arm_memory.raised, amd |-> 0, arm_ocpus |-> 0, arm_memory |-> 0, storage |-> 0]
    ELSE IF ~used_boot.ok THEN [ok |-> FALSE, raised |-> used_boot.raised, amd |-> 0, arm_ocpus |-> 0, arm_memory |-> 0, storage |-> 0]
    ELSE IF ~used_block.ok THEN [ok |-> FALSE, raised |-> used_block.raised, amd |-> 0, arm_ocpus |-> 0, arm_memory |-> 0, storage |-> 0]
    ELSE [ok |-> TRUE, raised |-> "none",
          amd |-> FREE_TIER_MAX_AMD_INSTANCES - used_amd,
          arm_ocpus |-> FREE_TIER_MAX_ARM_OCPUS - used_arm_ocpus.value,
          arm_memory |-> FREE_TIER_MAX_ARM_MEMORY_GB - used_arm_memory.value,
          storage |-> FREE_TIER_MAX_STORAGE_GB - (used_boot.value + used_block.value)]

\* _available_resources (429-448): the 4-tuple, or the exception int() raised
available_resources(res) ==
    AvailableFrom(Len(res.amd_instances),
                  SumIntField(DictValues(res.arm_instances), 5),
                  SumIntField(DictValues(res.arm_instances), 6),
                  SumIntField(DictValues(res.boot_volumes), 1),
                  SumIntField(DictValues(res.block_volumes), 1))

NoException == [type |-> "none", message |-> <<>>]

AmdCountError(n, available) == <<"Cannot create ">> \o Str(n) \o <<" AMD instances, only ">> \o Str(available) \o <<" available.">>
ArmOcpuError(n, available) == <<"Cannot allocate ">> \o Str(n) \o <<" ARM OCPUs, only ">> \o Str(available) \o <<" available.">>
ArmMemoryError(n, available) == <<"Cannot allocate ">> \o Str(n) \o <<"GB ARM memory, only ">> \o Str(available) \o <<"GB available.">>
StorageError(n, available) == <<"Cannot use ">> \o Str(n) \o <<"GB storage, only ">> \o Str(available) \o <<"GB available.">>
VcnError == <<"Existing VCN count already exceeds free-tier VCN limit.">>

\* "\n- ".join(errors)
RECURSIVE JoinLines(_)
JoinLines(errors) ==
    IF errors = <<>> THEN <<>>
    ELSE IF Len(errors) = 1 THEN errors[1]
    ELSE errors[1] \o <<"\n- ">> \o JoinLines(Tail(errors))

\* lines 578-585
ProposedStorage(p) == p.amd_micro_instance_count * p.amd_micro_boot_volume_size_gb + SumSeq(p.arm_flex_boot_volume_size_gb) + p.amd_micro_instance_count * p.amd_block_volume_size_gb + SumSeq(p.arm_block_volume_sizes)

\* lines 587-605: the list of violations
ValidationErrors(amd_count, proposed_arm_ocpus, proposed_arm_memory, proposed_storage, vcn_count, available) ==
    (IF amd_count > available.amd THEN <<AmdCountError(amd_count, available.amd)>> ELSE <<>>)
    \o (IF proposed_arm_ocpus > available.arm_ocpus THEN <<ArmOcpuError(proposed_arm_ocpus, available.arm_ocpus)>> ELSE <<>>)
    \o (IF proposed_arm_memory > available.arm_memory THEN <<ArmMemoryError(proposed_arm_memory, available.arm_memory)>> ELSE <<>>)
    \o (IF proposed_storage > available.storage THEN <<StorageError(proposed_storage, available.storage)>> ELSE <<>>)
    \o (IF vcn_count > FREE_TIER_MAX_VCNS THEN <<VcnError>> ELSE <<>>)

\* A validator that hands back without raising whatever it found.
ReturnNormally(errors) == NoException

\* lines 607-610: raise when there are errors
RaiseIfErrors(errors) ==
    IF errors # <<>>
    THEN [type |-> "ClickException", message |-> <<"Free Tier validation failed:", "\n- ">> \o JoinLines(errors)]
    ELSE NoException

\* The validator once _available_resources has returned or raised.
ValidateAgainst(p, res, available) ==
    IF ~available.ok THEN [type |-> available.raised, message |-> <<>>]
    ELSE RaiseIfErrors(ValidationErrors(p.amd_micro_instance_count, SumSeq(p.arm_flex_ocpus_per_instance), SumSeq(p.arm_flex_memory_per_instance), ProposedStorage(p), Len(res.vcns), available))

\* A validator that approves every plan.
ApproveAll(p, res) == NoException

\* _validate_proposed_config (573-610): returns None, or raises; the result is
\* the exception raised (type "none" when the call returns).
oci_validate_proposed_config(p, res) == ValidateAgainst(p, res, available_resources(res))

(***************************************************************************)
(* OCI cli.py: the planners                                                *)
(***************************************************************************)
PlannedConfig(amd_count, amd_boot, amd_hosts, amd_block, arm_count, arm_ocpus, arm_memory, arm_boot, arm_hosts, arm_blocks) ==
    [amd_micro_instance_count |-> amd_count,
     amd_micro_boot_volume_size_gb |-> amd_boot,
     amd_micro_hostnames |-> amd_hosts,
     amd_block_volume_size_gb |-> amd_block,
     arm_flex_instance_count |-> arm_count,
     arm_flex_ocpus_per_instance |-> arm_ocpus,
     arm_flex_memory_per_instance |-> arm_memory,
     arm_flex_boot_volume_size_gb |-> arm_boot,
     arm_flex_hostnames |-> arm_hosts,
     arm_block_volume_sizes |-> arm_blocks]

\* [first] + rest, unless the evaluation of either raised
ConsInt(first, rest) ==
    IF ~first.ok THEN [ok |-> FALSE, raised |-> first.raised, value |-> <<>>]
    ELSE IF ~rest.ok THEN rest
    ELSE [ok |-> TRUE, raised |-> "none", value |-> <<first.value>> \o rest.value]

\* [int(entry.split("|")[index]) for entry in entries]: the list, or the first exception
RECURSIVE IntFields(_, _)
IntFields(entries, index) ==
    IF entries = <<>> THEN [ok |-> TRUE, raised |-> "none", value |-> <<>>]
    ELSE ConsInt(IntField(Head(entries), index), IntFields(Tail(entries), index))

\* [entry.split("|")[0] for entry in entries]
FirstFields(entries) == [i \in DOMAIN entries |-> FirstField(entries[i])]

\* A context in which an ARM image is always taken as found.
AlwaysArmImage(ctx) == TRUE
HasArmImage(ctx) == Truthy(ctx.ubuntu_arm_image_ocid)

AmdDefaultHostname(i) == <<"amd-instance-">> \o Str(i)
ArmDefaultHostname(i) == <<"arm-instance-">> \o Str(i)

\* A planner that hands back its plan without the list of block volume sizes.
PlannedWithoutBlocks(p) == [ok |-> TRUE, raised |-> "none", plan |-> <<[p EXCEPT !.arm_block_volume_sizes = <<>>]>>]

\* The outcome of a planner: the PlannedConfig returned, or the exception raised.
Planned(p) == [ok |-> TRUE, raised |-> "none", plan |-> <<p>>]
PlannerRaised(e) == [ok |-> FALSE, raised |-> e, plan |-> <<>>]

\* lines 397-427, once the list comprehensions of lines 393-396 are evaluated
PlanFromEntries(amd_entries, arm_entries, amd_hostnames, arm_hostnames, arm_ocpus, arm_memory, has_arm_image) ==
    IF ~arm_ocpus.ok THEN PlannerRaised(arm_ocpus.raised)
    ELSE IF ~arm_memory.ok THEN PlannerRaised(arm_memory.raised)
    ELSE IF amd_entries = <<>> /\ arm_entries = <<>>
    THEN Planned(PlannedConfig(0, 50, <<>>, 0,
                 IF has_arm_image THEN 1 ELSE 0,
                 IF has_arm_image THEN <<4>> ELSE <<>>,
                 IF has_arm_image THEN <<24>> ELSE <<>>,
                 IF has_arm_image THEN <<200>> ELSE <<>>,
                 IF has_arm_image THEN <<ArmDefaultHostname(1)>> ELSE <<>>,
                 IF has_arm_image THEN <<0>> ELSE <<>>))
    ELSE Planned(PlannedConfig(Len(amd_entries), 50, amd_hostnames, 0,
                 Len(arm_entries), arm_ocpus.value, arm_memory.value,
                 [i \in DOMAIN arm_entries |-> FREE_TIER_MIN_BOOT_VOLUME_GB], arm_hostnames,
                 [i \in DOMAIN arm_entries |-> 0]))

\* _plan_from_existing (389-427)
plan_from_existing(res, ctx) ==
    PlanFromEntries(DictValues(res.amd_instances), DictValues(res.arm_instances),
                    FirstFields(DictValues(res.amd_instances)), FirstFields(DictValues(res.arm_instances)),
                    IntFields(DictValues(res.arm_instances), 5), IntFields(DictValues(res.arm_instances), 6),
                    HasArmImage(ctx))

\* A maximum planner that gives the ARM boot volume all the storage left,
\* without taking off the AMD boot volumes.
PlanMaximumGreedy(available, amd_count, arm) ==
    IF ~available.ok THEN PlannerRaised(available.raised)
    ELSE Planned(PlannedConfig(amd_count, 50, [i \in 1..amd_count |-> AmdDefaultHostname(i)], 0,
                 IF arm THEN 1 ELSE 0,
                 IF arm THEN <<available.arm_ocpus>> ELSE <<>>,
                 IF arm THEN <<available.arm_memory>> ELSE <<>>,
                 IF arm THEN <<Max(FREE_TIER_MIN_BOOT_VOLUME_GB, available.storage)>> ELSE <<>>,
                 IF arm THEN <<ArmDefaultHostname(1)>> ELSE <<>>,
                 IF arm THEN <<0>> ELSE <<>>))

\* lines 533-571, once _available_resources has returned or raised
PlanMaximumFrom(available, amd_count, arm) ==
    IF ~available.ok THEN PlannerRaised(available.raised)
    ELSE Planned(PlannedConfig(amd_count, 50, [i \in 1..amd_count |-> AmdDefaultHostname(i)], 0,
                 IF arm THEN 1 ELSE 0,
                 IF arm THEN <<available.arm_ocpus>> ELSE <<>>,
                 IF arm THEN <<available.arm_memory>> ELSE <<>>,
                 IF arm THEN <<Max(FREE_TIER_MIN_BOOT_VOLUME_GB, available.storage - (amd_count * 50))>> ELSE <<>>,
                 IF arm THEN <<ArmDefaultHostname(1)>> ELSE <<>>,
                 IF arm THEN <<0>> ELSE <<>>))

PlanMaximumWith(available, has_arm_image) == PlanMaximumFrom(available, Max(0, available.amd), has_arm_image /\ available.arm_ocpus > 0)

\* _plan_maximum (528-571)
plan_maximum(res, ctx) == PlanMaximumWith(available_resources(res), HasArmImage(ctx))

\* The answers typed at the prompts of _plan_custom.  click.IntRange(lo, hi)
\* accepts the integers lo..hi; the user of the model answers a prompt with
\* the bottom or the top of its range, the same way for every instance.
IntRangeAnswer(end, lo, hi) == IF end = "lo" THEN lo ELSE hi
RangeEnds == {"lo", "hi"}
\* Largest ARM instance count answered (IntRange(0, FREE_TIER_MAX_ARM_INSTANCES)).
MaxArmAnswer == 2
ArmCountAnswers == 0..Min(MaxArmAnswer, FREE_TIER_MAX_ARM_INSTANCES)

\* lines 488-513: the loop over instances i..arm_count
RECURSIVE ArmLoop(_, _, _, _, _)
ArmLoopBody(i, arm_count, rem_ocpus, rem_memory, user, ocpu, mem, boot) ==
    <<[ocpu |-> ocpu, mem |-> mem, boot |-> boot]>> \o ArmLoop(i + 1, arm_count, rem_ocpus - ocpu, rem_memory - mem, user)
ArmLoopOcpu(i, arm_count, rem_ocpus, rem_memory, user, ocpu) ==
    ArmLoopBody(i, arm_count, rem_ocpus, rem_memory, user, ocpu,
                IntRangeAnswer(user.mem, 1, Max(1, Min(rem_memory, ocpu * 6))),
                IntRangeAnswer(user.boot, 50, 200))
ArmLoop(i, arm_count, rem_ocpus, rem_memory, user) ==
    IF i > arm_count THEN <<>>
    ELSE ArmLoopOcpu(i, arm_count, rem_ocpus, rem_memory, user, IntRangeAnswer(user.ocpu, 1, Max(1, rem_ocpus)))

\* The users of the model: how each kind of prompt is answered.
Users == [amd_count : RangeEnds, amd_boot : RangeEnds, arm_count : ArmCountAnswers, ocpu : RangeEnds, mem : RangeEnds, boot : RangeEnds]

\* lines 515-526: the PlannedConfig returned
CustomPlanOf(amd_count, amd_boot, a) ==
    Planned(PlannedConfig(amd_count, amd_boot, [i \in 1..amd_count |-> AmdDefaultHostname(i)], 0,
            Len(a),
            [i \in DOMAIN a |-> a[i].ocpu],
            [i \in DOMAIN a |-> a[i].mem],
            [i \in DOMAIN a |-> a[i].boot],
            [i \in DOMAIN a |-> ArmDefaultHostname(i)],
            [i \in DOMAIN a |-> 0]))

\* lines 454-513 with the prompts answered by `user`
PlanCustomAsked(available, amd_count, arm_asked, user) ==
    CustomPlanOf(amd_count,
                 IF amd_count = 0 THEN 50 ELSE IntRangeAnswer(user.amd_boot, 50, 100),
                 ArmLoop(1, IF arm_asked THEN user.arm_count ELSE 0, available.arm_ocpus, available.arm_memory, user))

\* A custom planner that offers the whole AMD cap whatever is in use.
PlanCustomUncapped(available, ctx, user) ==
    IF ~available.ok THEN PlannerRaised(available.raised)
    ELSE PlanCustomAsked(available, IntRangeAnswer(user.amd_count, 0, FREE_TIER_MAX_AMD_INSTANCES), Truthy(ctx.ubuntu_arm_image_ocid) /\ available.arm_ocpus > 0, user)

PlanCustomWith(available, ctx, user) ==
    IF ~available.ok THEN PlannerRaised(available.raised)
    ELSE PlanCustomAsked(available, IntRangeAnswer(user.amd_count, 0, Max(0, available.amd)), Truthy(ctx.ubuntu_arm_image_ocid) /\ available.arm_ocpus > 0, user)

\* _plan_custom (450-526)
plan_custom(res, ctx, user) == PlanCustomWith(available_resources(res), ctx, user)

(***************************************************************************)
(* OCI: the tenancies, options and plans the model runs the workflow on    *)
(***************************************************************************)
\* Largest number of AMD instances in a tenancy (the cap is 2).
MaxAmd == 3
\* Largest number of AVAILABLE VCNs in a tenancy (the cap is 2).
MaxVcns == 3

Instance(id, name, state, shape, ocpus, memory) ==
    [id |-> id, display_name |-> name, lifecycle_state |-> state, shape |-> shape, ocpus |-> ocpus, memory_in_gbs |-> memory, public_ip |-> "none", private_ip |-> "none"]

AmdFleet(n) == [i \in 1..n |-> Instance(<<"amd", i>>, AmdDefaultHostname(i), "RUNNING", FREE_TIER_AMD_SHAPE, 1, 1)]

Arm(i, name, state, ocpus, memory) == Instance(<<"arm", i>>, name, state, FREE_TIER_ARM_SHAPE, ocpus, memory)

\* ARM fleets: none; the whole allowance; two instances (beside a terminated
\* one and one of another shape); all the memory on half the OCPUs; a display
\* name that holds the separator.
ArmFleetNames == {"none", "full", "two", "memory-full", "piped-name"}
ArmFleet(name) ==
    CASE name = "none" -> <<>>
      [] name = "full" -> <<Arm(1, <<"arm-instance-", "1">>, "RUNNING", 4, 24)>>
      [] name = "two" -> <<Arm(1, <<"arm-instance-", "1">>, "RUNNING", 2, 12), Arm(2, <<"arm-instance-", "2">>, "TERMINATED", 4, 24), Instance(<<"std", 1>>, <<"paid-", "1">>, "RUNNING", "VM.Standard3.Flex", 8, 64), Arm(3, <<"arm-instance-", "3">>, "STOPPED", 1, 6)>>
      [] name = "memory-full" -> <<Arm(1, <<"arm-instance-", "1">>, "RUNNING", 2, 24)>>
      [] name = "piped-name" -> <<Arm(1, <<"web", "|", "db">>, "RUNNING", 1, 6)>>

Volume(id, name, state, size) == [id |-> id, display_name |-> name, lifecycle_state |-> state, size_in_gbs |-> size]

\* Boot and block volumes: none; the whole allowance (beside a volume that is
\* not AVAILABLE); over the allowance; a display name that holds the separator.
VolumeSetNames == {"none", "full", "over", "piped-name"}
BootVolumes(name) ==
    CASE name = "none" -> <<>>
      [] name = "full" -> <<Volume("boot1", <<"boot-", "1">>, "AVAILABLE", 50), Volume("boot2", <<"boot-", "2">>, "AVAILABLE", 50), Volume("boot3", <<"boot-", "3">>, "TERMINATED", 50)>>
      [] name = "over" -> <<Volume("boot1", <<"boot-", "1">>, "AVAILABLE", 200)>>
      [] name = "piped-name" -> <<Volume("boot1", <<"vol", "|", "7">>, "AVAILABLE", 100)>>
BlockVolumes(name) ==
    CASE name = "none" -> <<>>
      [] name = "full" -> <<Volume("blk1", <<"data-", "1">>, "AVAILABLE", 100)>>
      [] name = "over" -> <<Volume("blk1", <<"data-", "1">>, "AVAILABLE", 50)>>
      [] name = "piped-name" -> <<>>

Vcn(i, state) == [id |-> <<"vcn", i>>, display_name |-> <<"vcn-">> \o Str(i), lifecycle_state |-> state, cidr_block |-> "10.0.0.0/16"]

\* The VCNs of a tenancy that has n AVAILABLE ones; when that is the cap's
\* worth, one more that is being terminated is listed first.
VcnList(n) ==
    IF n = FREE_TIER_MAX_VCNS
    THEN <<Vcn(0, "TERMINATING")>> \o [i \in 1..n |-> Vcn(i, "AVAILABLE")]
    ELSE [i \in 1..n |-> Vcn(i, "AVAILABLE")]

ArmImages == {None, "ocid1.image.oc1..ubuntu-arm"}

\* A tenancy, by what it holds; the List* operators are the API's answers for it.
Tenancies == [amd : 0..MaxAmd, arm : ArmFleetNames, vcns : 0..MaxVcns, volumes : VolumeSetNames, arm_image : ArmImages]

\* The tenancies on which the whole workflow is run.
RunTenancies == [amd : {0, FREE_TIER_MAX_AMD_INSTANCES, MaxAmd}, arm : {"none", "piped-name"}, vcns : {0}, volumes : {"none", "over"}, arm_image : ArmImages]

ListInstances(t) == AmdFleet(t.amd) \o ArmFleet(t.arm)
ListVcns(t) == VcnList(t.vcns)
ListBootVolumes(t) == BootVolumes(t.volumes)
ListVolumes(t) == BlockVolumes(t.volumes)

Runtimes == [non_interactive : BOOLEAN, auto_use_existing : BOOLEAN, auto_deploy : BOOLEAN, strict_provider_parity : BOOLEAN]

\* The RuntimeConfig of a workflow object whose methods are called one by one.
CallRuntime == [non_interactive |-> TRUE, auto_use_existing |-> FALSE, auto_deploy |-> FALSE, strict_provider_parity |-> TRUE]

\* ARM parts of the plans handed to the validator directly.
ProposedArm ==
    { <<>>,
      <<[ocpu |-> 4, mem |-> 24, boot |-> 47, block |-> 0]>>,
      <<[ocpu |-> 4, mem |-> 24, boot |-> 200, block |-> 0]>>,
      <<[ocpu |-> 5, mem |-> 30, boot |-> 47, block |-> 0]>>,
      <<[ocpu |-> 1, mem |-> 6, boot |-> 50, block |-> 50]>>,
      <<[ocpu |-> 2, mem |-> 12, boot |-> 50, block |-> 0], [ocpu |-> 2, mem |-> 13, boot |-> 50, block |-> 0]>> }

\* The AMD block volume is asked for with the cap's worth of AMD instances.
ProposedPlans ==
    { PlannedConfig(n, 50, [i \in 1..n |-> AmdDefaultHostname(i)], IF n = FREE_TIER_MAX_AMD_INSTANCES THEN 50 ELSE 0, Len(a),
                    [i \in DOMAIN a |-> a[i].ocpu], [i \in DOMAIN a |-> a[i].mem], [i \in DOMAIN a |-> a[i].boot],
                    [i \in DOMAIN a |-> ArmDefaultHostname(i)], [i \in DOMAIN a |-> a[i].block]) :
        n \in 0..MaxAmd, a \in ProposedArm }

\* Plans whose ARM lists do not all have arm_flex_instance_count elements:
\* a count of 2 over one-element lists, a list one longer than the others,
\* lists left filled beside a count of 0.
MalformedPlans ==
    { PlannedConfig(0, 50, <<>>, 0, 2, <<2>>, <<12>>, <<50>>, <<ArmDefaultHostname(1)>>, <<0>>),
      PlannedConfig(0, 50, <<>>, 0, 1, <<2, 2>>, <<12>>, <<50>>, <<ArmDefaultHostname(1)>>, <<0>>),
      PlannedConfig(1, 50, <<AmdDefaultHostname(1)>>, 0, 0, <<1>>, <<6>>, <<>>, <<>>, <<>>) }

TerraformFiles == <<"provider.tf", "variables.tf", "data_sources.tf", "main.tf", "block_volumes.tf", "cloud-init.yaml">>
SshKeyFiles == {"id_rsa", "id_rsa.pub"}
SshDirsFound == {{}, {"id_rsa"}, SshKeyFiles}

\* RETRY_MAX_ATTEMPTS and RETRY_BASE_DELAY when the environment leaves them unset
RETRY_MAX_ATTEMPTS == 8
RETRY_BASE_DELAY == 15
\* A RETRY_MAX_ATTEMPTS set in the environment
EnvMaxAttempts == 2
MaxAttemptsChoices == {0, EnvMaxAttempts, RETRY_MAX_ATTEMPTS}

\* What one `terraform apply` gives back: the return code and the output.
ApplyOutcomes ==
    { [returncode |-> 0, output |-> <<"Apply complete!">>],
      [returncode |-> 0, output |-> <<"Warning: ", "out of capacity", " in AD-2; ", "Apply complete!">>],
      [returncode |-> 1, output |-> <<"Error: 500-InternalError, ", "Out of host capacity", ".">>],
      [returncode |-> 1, output |-> <<"Error: 401-NotAuthenticated">>] }

\* OUT_OF_CAPACITY_RE (26-29).search(output), re.IGNORECASE
OutOfCapacityPhrases == {"out of capacity", "out of host capacity", "outofcapacity", "outofhostcapacity"}
Lower(piece) == IF piece = "Out of host capacity" THEN "out of host capacity" ELSE piece
OutOfCapacitySearch(output) == \E i \in DOMAIN output : Lower(output[i]) \in OutOfCapacityPhrases

\* Mutant: every failed attempt is followed by another.
ApplyAttemptRetryingAll(outcome, attempt, max_attempts) ==
    IF outcome.returncode = 0 THEN [next |-> "return", message |-> <<>>, sleep |-> 0]
    ELSE IF attempt = max_attempts THEN [next |-> "raise", message |-> <<"terraform apply did not succeed after ">> \o Str(max_attempts) \o <<" attempts.">>, sleep |-> 0]
    ELSE [next |-> "sleep", message |-> <<>>, sleep |-> RETRY_BASE_DELAY * 2 ^ (attempt - 1)]

\* Mutant: the delay grows by RETRY_BASE_DELAY each time instead of doubling.
ApplyAttemptLinearDelay(outcome, attempt, max_attempts) ==
    IF outcome.returncode = 0 THEN [next |-> "return", message |-> <<>>, sleep |-> 0]
    ELSE IF ~OutOfCapacitySearch(outcome.output) THEN [next |-> "raise", message |-> <<"terraform apply failed:">>, sleep |-> 0]
    ELSE IF attempt = max_attempts THEN [next |-> "raise", message |-> <<"terraform apply did not succeed after ">> \o Str(max_attempts) \o <<" attempts.">>, sleep |-> 0]
    ELSE [next |-> "sleep", message |-> <<>>, sleep |-> RETRY_BASE_DELAY * attempt]

\* The body of the loop of _run_terraform_apply_with_retries (1300-1326) once
\* the attempt has given its outcome: return, raise, or sleep and go round again
ApplyAttempt(outcome, attempt, max_attempts) ==
    IF outcome.returncode = 0 THEN [next |-> "return", message |-> <<>>, sleep |-> 0]
    ELSE IF ~OutOfCapacitySearch(outcome.output) THEN [next |-> "raise", message |-> <<"terraform apply failed:">>, sleep |-> 0]
    ELSE IF attempt = max_attempts THEN [next |-> "raise", message |-> <<"terraform apply did not succeed after ">> \o Str(max_attempts) \o <<" attempts.">>, sleep |-> 0]
    ELSE [next |-> "sleep", message |-> <<>>, sleep |-> RETRY_BASE_DELAY * 2 ^ (attempt - 1)]

NoTerraform == [cmds |-> <<>>, returncodes |-> <<>>, max_attempts |-> 0, outcomes |-> <<>>, sleeps |-> <<>>]
NoSsh == [found |-> {}, files |-> {}]
NoRuntime == [non_interactive |-> FALSE, auto_use_existing |-> FALSE, auto_deploy |-> FALSE, strict_provider_parity |-> FALSE]
NoTenancy == [amd |-> 0, arm |-> "none", vcns |-> 0, volumes |-> "none", arm_image |-> None]

\* Largest reading of the wall clock, in seconds since the first run started
MaxClock == 1
\* Largest number of runs of the workflow on one machine
MaxRuns == 2

\* The machine before the first run: the key files that are found in ./ssh_keys
\* are there from before (written by 0), nothing has been rendered.
HostWith(found) == [run |-> 1, clock |-> 0, keys |-> [f \in found |-> 0], renders |-> <<>>]

(***************************************************************************)
(* OCI cli.py: the renderers                                               *)
(***************************************************************************)
\* time.ctime(): the local time to the second, as text
Ctime(now) == <<"ctime:">> \o Str(now)

\* ", ".join(texts)
RECURSIVE JoinTexts(_, _)
JoinTexts(sep, texts) ==
    IF texts = <<>> THEN <<>>
    ELSE IF Len(texts) = 1 THEN texts[1]
    ELSE texts[1] \o <<sep>> \o JoinTexts(sep, Tail(texts))

\* q(items) (724-725) and nums(items) (727-728) of _render_variables_tf
Quoted(items) == <<"[">> \o JoinTexts(", ", [i \in DOMAIN items |-> <<"'">> \o items[i] \o <<"'">>]) \o <<"]">>
Nums(items) == <<"[">> \o JoinTexts(", ", [i \in DOMAIN items |-> Str(items[i])]) \o <<"]">>

\* _render_provider_tf (666-721) at the time `now`, for the auth mode and
\* profile the command line defaults to
render_provider_tf(strict_provider_parity, ctx, now) ==
    <<"# Generated: ">> \o Ctime(now) \o <<"# Region: ", ctx.region>>
    \o (IF strict_provider_parity
        THEN <<"# OCI Provider with session token authentication", "auth = SecurityToken", "config_file_profile = DEFAULT", "region = ", ctx.region>>
        ELSE <<"# OCI Provider configuration", "auth = APIKey", "config_file_profile = DEFAULT", "region = ", ctx.region>>)

\* _render_variables_tf (723-812) at the time `now`
render_variables_tf(ctx, p, now) ==
    <<"# Generated: ">> \o Ctime(now)
    \o <<"# Configuration: ">> \o Str(p.amd_micro_instance_count) \o <<"x AMD + ">> \o Str(p.arm_flex_instance_count) \o <<"x ARM instances">>
    \o <<"tenancy_ocid = ", ctx.tenancy_ocid, "region = ", ctx.region, "ubuntu_x86_image_ocid = ", ctx.ubuntu_x86_image_ocid>>
    \o <<"ubuntu_arm_image_ocid = ", IF Truthy(ctx.ubuntu_arm_image_ocid) THEN ctx.ubuntu_arm_image_ocid ELSE "">>
    \o <<"amd_micro_instance_count = ">> \o Str(p.amd_micro_instance_count)
    \o <<"amd_micro_boot_volume_size_gb = ">> \o Str(p.amd_micro_boot_volume_size_gb)
    \o <<"amd_micro_hostnames = ">> \o Quoted(p.amd_micro_hostnames)
    \o <<"amd_block_volume_size_gb = ">> \o Str(p.amd_block_volume_size_gb)
    \o <<"arm_flex_instance_count = ">> \o Str(p.arm_flex_instance_count)
    \o <<"arm_flex_ocpus_per_instance = ">> \o Nums(p.arm_flex_ocpus_per_instance)
    \o <<"arm_flex_memory_per_instance = ">> \o Nums(p.arm_flex_memory_per_instance)
    \o <<"arm_flex_boot_volume_size_gb = ">> \o Nums(p.arm_flex_boot_volume_size_gb)
    \o <<"arm_flex_hostnames = ">> \o Quoted(p.arm_flex_hostnames)
    \o <<"arm_block_volume_sizes = ">> \o Nums(p.arm_block_volume_sizes)

\* The six files of one _write_terraform_files (637-664): provider.tf and
\* variables.tf each read the clock, the other four are fixed text.
write_terraform_files(strict_provider_parity, ctx, p, t1, t2) ==
    [name \in {TerraformFiles[i] : i \in DOMAIN TerraformFiles} |->
        IF name = "provider.tf" THEN render_provider_tf(strict_provider_parity, ctx, t1)
        ELSE IF name = "variables.tf" THEN render_variables_tf(ctx, p, t2)
        ELSE <<name>>]

\* What the call leaves on the machine: the files, beside what they were rendered from.
HostAfterWrite(host, strict_provider_parity, ctx, p, t1, t2) ==
    [host EXCEPT !.clock = t2,
                 !.renders = Append(@, [strict_provider_parity |-> strict_provider_parity, ctx |-> ctx, planned |-> p,
                                       files |-> write_terraform_files(strict_provider_parity, ctx, p, t1, t2)])]

(***************************************************************************)
(* OCI cli.py: CloudBooterWorkflow, step by step                           *)
(***************************************************************************)
ClickException(message) == [type |-> "ClickException", message |-> message]
Raised(type) == [type |-> type, message |-> <<>>]

\* CloudBooterWorkflow(runtime) (86-93), about to run or to have its methods called
OciInit ==
    /\ oci_mode \in {"run", "call"}
    /\ runtime \in (IF oci_mode = "run" THEN Runtimes ELSE {CallRuntime})
    /\ tenancy \in (IF oci_mode = "run" THEN RunTenancies ELSE Tenancies)
    /\ oci_pc = (IF oci_mode = "run" THEN "start" ELSE "context")
    /\ oci_context = <<>>
    /\ resources = ExistingResources
    /\ planned = <<>>
    /\ oci_raised = NoException
    /\ oci_trace = <<>>
    /\ oci_files = {}
    /\ oci_ssh = NoSsh
    /\ oci_tf = NoTerraform
    /\ \E found \in (IF oci_mode = "run" THEN SshDirsFound ELSE {{}}) : oci_host = HostWith(found)

\* run, line 96: terraform_dir.mkdir(parents=True, exist_ok=True)
OciMkdir ==
    /\ oci_pc = "start"
    /\ oci_pc' = "context"
    /\ oci_trace' = Append(oci_trace, "mkdir")
    /\ UNCHANGED <<oci_mode, runtime, tenancy, oci_context, resources, planned, oci_raised, oci_files, oci_ssh, oci_tf, oci_host>>
    /\ UNCHANGED gcp_vars

\* _build_oci_context (112-148): raises when tenancy, region or availability
\* domain cannot be determined, else returns the OciContext.
OciBuildContext ==
    /\ oci_pc = "context"
    /\ oci_trace' = Append(oci_trace, "context")
    /\ \E determined \in BOOLEAN :
          IF determined
          THEN /\ oci_context' = <<[tenancy_ocid |-> "ocid1.tenancy.oc1..t", region |-> "us-ashburn-1", availability_domain |-> "AD-1", ubuntu_x86_image_ocid |-> "ocid1.image.oc1..ubuntu-x86", ubuntu_arm_image_ocid |-> tenancy.arm_image]>>
               /\ oci_pc' = "inventory"
               /\ UNCHANGED oci_raised
          ELSE /\ oci_raised' = ClickException(<<"Unable to determine OCI region. Pass --region.">>)
               /\ oci_pc' = "done"
               /\ UNCHANGED oci_context
    /\ UNCHANGED <<oci_mode, runtime, tenancy, resources, planned, oci_files, oci_ssh, oci_tf, oci_host>>
    /\ UNCHANGED gcp_vars

\* _inventory_all_resources (241-244): the list calls are not guarded, so a
\* failing call ends the run with the SDK's exception.
OciInventory ==
    /\ oci_pc = "inventory"
    /\ oci_trace' = Append(oci_trace, "inventory")
    /\ \E api_ok \in BOOLEAN :
          IF api_ok
          THEN /\ resources' = inventory_all_resources(resources, ListInstances(tenancy), ListVcns(tenancy), ListBootVolumes(tenancy), ListVolumes(tenancy))
               /\ oci_pc' = "plan"
               /\ UNCHANGED oci_raised
          ELSE /\ oci_raised' = Raised("ServiceError")
               /\ oci_pc' = "done"
               /\ UNCHANGED resources
    /\ UNCHANGED <<oci_mode, runtime, tenancy, oci_context, planned, oci_files, oci_ssh, oci_tf, oci_host>>
    /\ UNCHANGED gcp_vars

\* What a planner's outcome does to the workflow.
PlannerStep(step, outcome) ==
    /\ oci_trace' = Append(oci_trace, step)
    /\ IF outcome.ok
       THEN planned' = outcome.plan /\ oci_pc' = "validate" /\ UNCHANGED oci_raised
       ELSE oci_raised' = Raised(outcome.raised) /\ oci_pc' = "done" /\ UNCHANGED planned

\* _plan_configuration (365-387)
OciPlanConfiguration ==
    /\ oci_pc = "plan"
    /\ oci_mode = "run"
    /\ IF runtime.auto_use_existing \/ runtime.non_interactive
       THEN PlannerStep("plan_from_existing", plan_from_existing(resources, oci_context[1]))
       ELSE \E choice \in 1..3 :
               IF choice = 1 THEN PlannerStep("plan_from_existing", plan_from_existing(resources, oci_context[1]))
               ELSE IF choice = 2
                    THEN \E user \in Users :
                            PlannerStep("plan_custom", plan_custom(resources, oci_context[1], user))
               ELSE PlannerStep("plan_maximum", plan_maximum(resources, oci_context[1]))
    /\ UNCHANGED <<oci_mode, runtime, tenancy, oci_context, resources, oci_files, oci_ssh, oci_tf, oci_host>>
    /\ UNCHANGED gcp_vars

\* One of the three planners called directly on the workflow object.
OciCallPlanner ==
    /\ oci_pc = "plan"
    /\ oci_mode = "call"
    /\ \/ PlannerStep("plan_from_existing", plan_from_existing(resources, oci_context[1]))
       \/ \E user \in Users :
             PlannerStep("plan_custom", plan_custom(resources, oci_context[1], user))
       \/ PlannerStep("plan_maximum", plan_maximum(resources, oci_context[1]))
    /\ UNCHANGED <<oci_mode, runtime, tenancy, oci_context, resources, oci_files, oci_ssh, oci_tf, oci_host>>
    /\ UNCHANGED gcp_vars

\* A PlannedConfig built by the caller, as the tests build theirs.
OciSupplyPlan ==
    /\ oci_pc = "plan"
    /\ oci_mode = "call"
    /\ \E p \in ProposedPlans \cup MalformedPlans : planned' = <<p>>
    /\ oci_pc' = "validate"
    /\ oci_trace' = Append(oci_trace, "plan_supplied")
    /\ UNCHANGED <<oci_mode, runtime, tenancy, oci_context, resources, oci_raised, oci_files, oci_ssh, oci_tf, oci_host>>
    /\ UNCHANGED gcp_vars

\* _validate_proposed_config(planned) (573-610); run, line 100
OciValidate ==
    /\ oci_pc = "validate"
    /\ oci_trace' = Append(oci_trace, "validate")
    /\ LET outcome == oci_validate_proposed_config(planned[1], resources)
       IN  IF outcome.type = "none"
           THEN oci_pc' = (IF oci_mode = "run" THEN "ssh" ELSE "done") /\ UNCHANGED oci_raised
           ELSE oci_raised' = outcome /\ oci_pc' = "done"
    /\ UNCHANGED <<oci_mode, runtime, tenancy, oci_context, resources, planned, oci_files, oci_ssh, oci_tf, oci_host>>
    /\ UNCHANGED gcp_vars

\* _write_terraform_files(ctx, planned, dir) called on the workflow object with
\* the caller's plan, as the tests of the renderers call it: the six renders
\* are string formatting and the six files are written.
OciCallWriteTerraformFiles ==
    /\ oci_pc = "validate"
    /\ oci_mode = "call"
    /\ oci_trace[Len(oci_trace)] = "plan_supplied"
    /\ oci_trace' = Append(oci_trace, "write")
    /\ oci_files' = oci_files \cup {TerraformFiles[i] : i \in DOMAIN TerraformFiles}
    /\ \E t1 \in oci_host.clock..MaxClock : \E t2 \in t1..MaxClock :
          oci_host' = HostAfterWrite(oci_host, runtime.strict_provider_parity, oci_context[1], planned[1], t1, t2)
    /\ oci_pc' = "done"
    /\ UNCHANGED <<oci_mode, runtime, tenancy, oci_context, resources, planned, oci_raised, oci_ssh, oci_tf>>
    /\ UNCHANGED gcp_vars

\* rsa.generate_private_key (619) and the two write_bytes (631-632): a pair no
\* earlier call made, named by the run that makes it, in both files
generate_private_key(run) == [f \in SshKeyFiles |-> run]

\* A _generate_ssh_keys without the early return of lines 617-618.
generate_ssh_keys_always(keys, run) == generate_private_key(run)

\* _generate_ssh_keys (612-635) on the files of the key directory: the early
\* return when both files exist (617-618), else a new pair in both files.
generate_ssh_keys(keys, run) ==
    IF "id_rsa" \in DOMAIN keys /\ "id_rsa.pub" \in DOMAIN keys
    THEN keys
    ELSE generate_private_key(run)

\* _generate_ssh_keys (612-635); run, line 101
OciGenerateSshKeys ==
    /\ oci_pc = "ssh"
    /\ oci_trace' = Append(oci_trace, "ssh_keys")
    /\ LET found == DOMAIN oci_host.keys
           keys == generate_ssh_keys(oci_host.keys, oci_host.run)
       IN  /\ oci_ssh' = [found |-> found, files |-> DOMAIN keys]
           /\ oci_host' = [oci_host EXCEPT !.keys = keys]
    /\ oci_pc' = "write"
    /\ UNCHANGED <<oci_mode, runtime, tenancy, oci_context, resources, planned, oci_raised, oci_files, oci_tf>>
    /\ UNCHANGED gcp_vars

\* _write_terraform_files (637-664), then run, lines 108-110
OciWriteTerraformFiles ==
    /\ oci_pc = "write"
    /\ oci_trace' = Append(oci_trace, "write")
    /\ oci_files' = oci_files \cup {TerraformFiles[i] : i \in DOMAIN TerraformFiles}
    /\ \E t1 \in oci_host.clock..MaxClock : \E t2 \in t1..MaxClock :
          oci_host' = HostAfterWrite(oci_host, runtime.strict_provider_parity, oci_context[1], planned[1], t1, t2)
    /\ oci_pc' = (IF runtime.auto_deploy THEN "terraform" ELSE "done")
    /\ UNCHANGED <<oci_mode, runtime, tenancy, oci_context, resources, planned, oci_raised, oci_ssh, oci_tf>>
    /\ UNCHANGED gcp_vars

\* _run_terraform_deploy (1271-1274): init, then plan, through _run_terraform_cmd (1276-1293)
OciTerraformCmd ==
    /\ oci_pc = "terraform"
    /\ Len(oci_tf.cmds) < 2
    /\ LET c == IF oci_tf.cmds = <<>> THEN "init" ELSE "plan"
       IN  /\ oci_trace' = IF c = "init" THEN Append(oci_trace, "deploy") ELSE oci_trace
           /\ \E returncode \in ReturnCodes :
                 /\ oci_tf' = [oci_tf EXCEPT !.cmds = Append(@, c), !.returncodes = Append(@, returncode)]
                 /\ IF returncode # 0
                    THEN oci_raised' = ClickException(<<"Command failed (terraform ", c, ")">>) /\ oci_pc' = "done"
                    ELSE UNCHANGED <<oci_raised, oci_pc>>
    /\ UNCHANGED <<oci_mode, runtime, tenancy, oci_context, resources, planned, oci_files, oci_ssh, oci_host>>
    /\ UNCHANGED gcp_vars

\* _run_terraform_apply_with_retries (1295-1330): one attempt per step.  With
\* a RETRY_MAX_ATTEMPTS below 1 the loop has no attempt and the call raises.
OciTerraformApply ==
    /\ oci_pc = "terraform"
    /\ Len(oci_tf.cmds) >= 2
    /\ \E max_attempts \in (IF Len(oci_tf.cmds) = 2 THEN MaxAttemptsChoices ELSE {oci_tf.max_attempts}), outcome \in ApplyOutcomes :
          LET attempt == Len(oci_tf.cmds) - 1
              step == ApplyAttempt(outcome, attempt, max_attempts)
          IN  IF max_attempts < 1
              THEN /\ oci_tf' = [oci_tf EXCEPT !.max_attempts = max_attempts]
                   /\ oci_pc' = "done"
                   /\ oci_raised' = ClickException(<<"terraform apply did not succeed after ">> \o Str(max_attempts) \o <<" attempts.">>)
              ELSE /\ oci_tf' = [cmds |-> Append(oci_tf.cmds, "apply"), returncodes |-> Append(oci_tf.returncodes, outcome.returncode),
                                 max_attempts |-> max_attempts,
                                 outcomes |-> Append(oci_tf.outcomes, outcome),
                                 sleeps |-> IF step.next = "sleep" THEN Append(oci_tf.sleeps, step.sleep) ELSE oci_tf.sleeps]
                   /\ oci_pc' = (IF step.next = "sleep" THEN oci_pc ELSE "done")
                   /\ oci_raised' = (IF step.next = "raise" THEN ClickException(step.message) ELSE oci_raised)
    /\ UNCHANGED <<oci_mode, runtime, tenancy, oci_context, resources, planned, oci_trace, oci_files, oci_ssh, oci_host>>
    /\ UNCHANGED gcp_vars

\* main() once more on the same machine: a new CloudBooterWorkflow is built
\* (86-93) and run.  The tenancy modelled stays as it is, so the program is
\* started again only after a run that did not apply a deployment.
OciRunAgain ==
    /\ oci_mode = "run"
    /\ oci_pc = "done"
    /\ oci_host.run < MaxRuns
    /\ ~(Len(oci_tf.cmds) >= 3 /\ oci_raised.type = "none")
    /\ oci_host' = [oci_host EXCEPT !.run = @ + 1]
    /\ oci_pc' = "start"
    /\ oci_context' = <<>>
    /\ resources' = ExistingResources
    /\ planned' = <<>>
    /\ oci_raised' = NoException
    /\ oci_trace' = <<>>
    /\ oci_files' = {}
    /\ oci_ssh' = NoSsh
    /\ oci_tf' = NoTerraform
    /\ UNCHANGED <<oci_mode, runtime, tenancy>>
    /\ UNCHANGED gcp_vars

OciNext ==
    \/ OciMkdir
    \/ OciBuildContext
    \/ OciInventory
    \/ OciPlanConfiguration
    \/ OciCallPlanner
    \/ OciSupplyPlan
    \/ OciValidate
    \/ OciCallWriteTerraformFiles
    \/ OciGenerateSshKeys
    \/ OciWriteTerraformFiles
    \/ OciTerraformCmd
    \/ OciTerraformApply
    \/ OciRunAgain

\* The program under way is the GCP package or the OCI package, never both.
OciOff ==
    /\ oci_pc = "off"
    /\ oci_mode = "off"
    /\ runtime = NoRuntime
    /\ tenancy = NoTenancy
    /\ oci_context = <<>>
    /\ resources = ExistingResources
    /\ planned = <<>>
    /\ oci_raised = NoException
    /\ oci_trace = <<>>
    /\ oci_files = {}
    /\ oci_ssh = NoSsh
    /\ oci_tf = NoTerraform
    /\ oci_host = HostWith({})

GcpOff ==
    /\ LIMITS = GCPFreeTierLimits
    /\ gcp_pc = "off"
    /\ gcp_cmd = "none"
    /\ gcp_args = NoArgs
    /\ gcp_errors = <<>>
    /\ gcp_exit = <<>>
    /\ gcp_raised = "none"
    /\ gcp_written = <<>>
    /\ gcp_outdir = {}
    /\ gcp_tf = <<>>
    /\ gcp_fresh = <<>>
    /\ gcp_inv = NoInventory
    /\ gcp_auth = NoAuth

InitGCP == GcpInit /\ OciOff
InitOCI == GcpOff /\ OciInit

Init == InitGCP \/ InitOCI

Next == GcpNext \/ OciNext

SpecGCP == InitGCP /\ [][GcpNext]_vars
SpecOCI == InitOCI /\ [][OciNext]_vars
Spec == Init /\ [][Next]_vars

\* One run() with --auto-deploy, in which every subprocess that is started
\* returns and every time.sleep ends: an attempt of terraform apply that can
\* be made is made.
OciRunNext ==
    \/ OciMkdir
    \/ OciBuildContext
    \/ OciInventory
    \/ OciPlanConfiguration
    \/ OciValidate
    \/ OciGenerateSshKeys
    \/ OciWriteTerraformFiles
    \/ OciTerraformCmd
    \/ OciTerraformApply
InitOCIDeploy == InitOCI /\ oci_mode = "run" /\ runtime.auto_deploy
SpecOCIDeploy == InitOCIDeploy /\ [][OciRunNext]_vars /\ WF_vars(OciTerraformApply)

(***************************************************************************)
(* Properties of the GCP validator and commands                            *)
(***************************************************************************)
\* The arguments the validator was called with by the current operation.
GcpValidated == gcp_cmd \in {"call", "validate", "deploy"}
ArgStorageRegion == IF "storage_region" \in DOMAIN gcp_args THEN gcp_args.storage_region ELSE None

\* The four rules, stated on the arguments with the documented free-tier values.
BreaksMachineType == gcp_args.machine_type # "e2-micro"
BreaksRegion == gcp_args.region \notin {"us-west1", "us-central1", "us-east1"}
BreaksDisk == gcp_args.disk_size > 30
BreaksStorageRegion == ArgStorageRegion \notin {None, "", "us-east1", "us-west1", "us-central1"}
BreachCount == (IF BreaksMachineType THEN 1 ELSE 0) + (IF BreaksRegion THEN 1 ELSE 0) + (IF BreaksDisk THEN 1 ELSE 0) + (IF BreaksStorageRegion THEN 1 ELSE 0)

ErrorPrefixed(e) == Len(e) >= 6 /\ e[1] = "E" /\ e[2] = "R" /\ e[3] = "R" /\ e[4] = "O" /\ e[5] = "R" /\ e[6] = ":"
\* An ERROR: entry about the given subject naming the offending value.
EntryAbout(e, subject, value) == ErrorPrefixed(e) /\ Len(e) >= 8 /\ e[7] = subject /\ e[8] = value
HasEntryAbout(subject, value) == \E i \in DOMAIN gcp_errors : EntryAbout(gcp_errors[i], subject, value)
CountEntriesAbout(subject) == Cardinality({i \in DOMAIN gcp_errors : ErrorPrefixed(gcp_errors[i]) /\ Len(gcp_errors[i]) >= 7 /\ gcp_errors[i][7] = subject})

\* C1: with allow_paid_resources false, every individually violated rule
\* (machine type, region, boot disk size, storage region) has an ERROR: entry
\* in the returned list, and the list is empty iff no rule is violated.
C1_EveryViolatedRuleReported ==
    (GcpValidated /\ ~gcp_args.allow_paid) =>
        /\ BreaksMachineType => HasEntryAbout(" Machine type '", gcp_args.machine_type)
        /\ BreaksRegion => HasEntryAbout(" Region '", gcp_args.region)
        /\ BreaksDisk => HasEntryAbout(" Boot disk ", ToString(gcp_args.disk_size))
        /\ BreaksStorageRegion => HasEntryAbout(" Cloud Storage region '", ArgStorageRegion)
        /\ (gcp_errors = <<>>) <=> (BreachCount = 0)

C1_Witness ==
    /\ gcp_cmd = "call" /\ ~gcp_args.allow_paid
    /\ BreaksStorageRegion /\ ~BreaksMachineType /\ ~BreaksRegion /\ gcp_args.disk_size = 30
    /\ Len(gcp_errors) = 1

\* C2: with allow_paid_resources true the returned list is empty whatever the
\* machine type, region, disk size and storage region.
C2_OverrideYieldsEmpty ==
    (GcpValidated /\ gcp_args.allow_paid) => gcp_errors = <<>>

C2_Witness ==
    /\ gcp_cmd = "call" /\ gcp_args.allow_paid
    /\ BreachCount = 4
    /\ gcp_errors = <<>>

\* C3: no short-circuit: with allow_paid_resources false the list has exactly
\* one ERROR: entry per breached rule and nothing else, so its length is the
\* number of breached rules (3 for machine type + region + disk, 4 with the
\* storage region as well).
C3_OneEntryPerBreachedRule ==
    (GcpValidated /\ ~gcp_args.allow_paid) =>
        /\ Len(gcp_errors) = BreachCount
        /\ \A i \in DOMAIN gcp_errors : ErrorPrefixed(gcp_errors[i])
        /\ CountEntriesAbout(" Machine type '") = (IF BreaksMachineType THEN 1 ELSE 0)
        /\ CountEntriesAbout(" Region '") = (IF BreaksRegion THEN 1 ELSE 0)
        /\ CountEntriesAbout(" Boot disk ") = (IF BreaksDisk THEN 1 ELSE 0)
        /\ CountEntriesAbout(" Cloud Storage region '") = (IF BreaksStorageRegion THEN 1 ELSE 0)
        /\ (BreaksMachineType /\ BreaksRegion /\ BreaksDisk /\ ~BreaksStorageRegion) => Len(gcp_errors) = 3
        /\ (BreaksMachineType /\ BreaksRegion /\ BreaksDisk /\ BreaksStorageRegion) => Len(gcp_errors) = 4

C3_Witness ==
    /\ gcp_cmd = "call" /\ ~gcp_args.allow_paid
    /\ BreaksMachineType /\ BreaksRegion /\ BreaksDisk /\ ~BreaksStorageRegion
    /\ Len(gcp_errors) = 3

HasErrorEntry == \E i \in DOMAIN gcp_errors : ErrorPrefixed(gcp_errors[i])
GcpExited == gcp_exit # <<>>
GcpCli == gcp_cmd \in {"validate", "deploy"}

\* C7 as stated: the CLI's exit status is non-zero iff the validator returned
\* an ERROR entry, and deploy exits 1 exactly when an ERROR: entry is returned.
C7_ExitNonZeroIffErrorEntry ==
    (GcpCli /\ GcpExited) =>
        /\ (gcp_exit[1] # 0) <=> HasErrorEntry
        /\ gcp_cmd = "deploy" => ((gcp_exit[1] = 1) <=> HasErrorEntry)

\* C7 amended: validate exits 1 iff an entry starts with ERROR and 0
\* otherwise; deploy exits 1 without writing a file when an ERROR: entry is
\* returned, and when none is returned a non-zero status comes only from a
\* later step: a terraform command's return code or an uncaught exception.
C7_ExitStatusByCommand ==
    /\ (gcp_cmd = "validate") => (gcp_exit = IF HasErrorEntry THEN <<1>> ELSE <<0>>)
    /\ (gcp_cmd = "deploy" /\ HasErrorEntry) => (gcp_exit = <<1>> /\ gcp_written = <<>> /\ gcp_raised = "none")
    /\ (gcp_cmd = "deploy" /\ GcpExited /\ ~HasErrorEntry /\ gcp_exit[1] # 0) =>
            \/ gcp_raised # "none"
            \/ gcp_args.auto_deploy /\ Len(gcp_tf) >= 1 /\ Len(gcp_written) = 5
    /\ (gcp_cmd = "deploy" /\ GcpExited /\ gcp_exit[1] = 0) => (~HasErrorEntry /\ Len(gcp_written) = 5)

C7_Witness ==
    /\ gcp_cmd = "validate" /\ HasErrorEntry /\ gcp_exit = <<1>>

\* C8: in deploy, validation precedes every write: a run whose validation
\* returned an ERROR entry exits 1 having written none of the five files and
\* without starting terraform; files are written only in runs whose
\* validation returned no ERROR entry.
C8_NoWriteAfterFailedValidation ==
    (gcp_cmd = "deploy") =>
        /\ HasErrorEntry => (gcp_exit = <<1>> /\ gcp_written = <<>> /\ gcp_tf = <<>>)
        /\ (gcp_written # <<>> \/ gcp_tf # <<>>) => ~HasErrorEntry
        /\ gcp_tf # <<>> => Len(gcp_written) = 5

C8_Witness ==
    /\ gcp_cmd = "deploy" /\ gcp_args.region = "europe-west1" /\ ~gcp_args.allow_paid
    /\ HasErrorEntry /\ gcp_exit = <<1>> /\ gcp_written = <<>>

\* C10: LIMITS keeps its construction-time values in every reachable state;
\* an attempted field assignment raises and changes nothing; a freshly
\* constructed default instance equals the singleton.
C10_LimitsImmutable ==
    /\ LIMITS.free_machine_type = "e2-micro"
    /\ LIMITS.free_compute_regions = <<"us-west1", "us-central1", "us-east1">>
    /\ LIMITS.free_standard_pd_gb = 30
    /\ LIMITS.free_storage_regions = <<"us-east1", "us-west1", "us-central1">>
    /\ (gcp_cmd = "setattr") => gcp_raised = "FrozenInstanceError"
    /\ (gcp_fresh # <<>>) => DataclassEq(gcp_fresh[1], LIMITS)

C10_Witness ==
    /\ gcp_cmd = "setattr" /\ gcp_args.name = "free_machine_type"
    /\ gcp_raised = "FrozenInstanceError"
    /\ LIMITS.free_machine_type = "e2-micro"

(***************************************************************************)
(* Properties of the OCI validator and workflow                            *)
(***************************************************************************)
\* What the tenancy holds, counted on the API's answers themselves: instances
\* that are not TERMINATED, volumes and VCNs that are AVAILABLE.
LiveInstance(i, shape) == i.lifecycle_state # "TERMINATED" /\ i.shape = shape
ExistingAmd == Cardinality({k \in DOMAIN ListInstances(tenancy) : LiveInstance(ListInstances(tenancy)[k], "VM.Standard.E2.1.Micro")})
ExistingArmOcpus == SumSeq([k \in DOMAIN ListInstances(tenancy) |-> IF LiveInstance(ListInstances(tenancy)[k], "VM.Standard.A1.Flex") THEN ListInstances(tenancy)[k].ocpus ELSE 0])
ExistingArmMemory == SumSeq([k \in DOMAIN ListInstances(tenancy) |-> IF LiveInstance(ListInstances(tenancy)[k], "VM.Standard.A1.Flex") THEN ListInstances(tenancy)[k].memory_in_gbs ELSE 0])
AvailableSizes(volumes) == SumSeq([k \in DOMAIN volumes |-> IF volumes[k].lifecycle_state = "AVAILABLE" THEN volumes[k].size_in_gbs ELSE 0])
ExistingStorage == AvailableSizes(ListBootVolumes(tenancy)) + AvailableSizes(ListVolumes(tenancy))
ExistingVcns == Cardinality({k \in DOMAIN ListVcns(tenancy) : ListVcns(tenancy)[k].lifecycle_state = "AVAILABLE"})

\* The validator has just run on the plan in hand.
OciValidated == oci_trace # <<>> /\ oci_trace[Len(oci_trace)] = "validate"
OciApproved == OciValidated /\ oci_raised.type = "none"
OciRejected == OciValidated /\ oci_raised.type = "ClickException"
Plan == planned[1]
PlanStorage == Plan.amd_micro_instance_count * Plan.amd_micro_boot_volume_size_gb + SumSeq(Plan.arm_flex_boot_volume_size_gb) + Plan.amd_micro_instance_count * Plan.amd_block_volume_size_gb + SumSeq(Plan.arm_block_volume_sizes)

\* The five rules, with the documented caps.
BreaksAmdCount == Plan.amd_micro_instance_count > 2 - ExistingAmd
BreaksArmOcpus == SumSeq(Plan.arm_flex_ocpus_per_instance) > 4 - ExistingArmOcpus
BreaksArmMemory == SumSeq(Plan.arm_flex_memory_per_instance) > 24 - ExistingArmMemory
BreaksStorage == PlanStorage > 200 - ExistingStorage
BreaksVcnCount == ExistingVcns > 2
OciBreachCount == (IF BreaksAmdCount THEN 1 ELSE 0) + (IF BreaksArmOcpus THEN 1 ELSE 0) + (IF BreaksArmMemory THEN 1 ELSE 0) + (IF BreaksStorage THEN 1 ELSE 0) + (IF BreaksVcnCount THEN 1 ELSE 0)

\* The messages an exception's text carries: each follows a "\n- ".
MessageCount(message) == Cardinality({k \in DOMAIN message : message[k] = "\n- "})
Mentions(message, piece) == \E k \in DOMAIN message : message[k] = piece
Says(message, a, b, c) == \E k \in DOMAIN message : k + 2 <= Len(message) /\ message[k] = a /\ message[k + 1] = b /\ message[k + 2] = c

\* No display name of the tenancy holds the record separator.
SeparatorFreeNames == tenancy.arm # "piped-name" /\ tenancy.volumes # "piped-name"

\* C4: the validator rejects the plan iff at least one of the five rules is
\* breached on the tenancy's existing usage; with 2 existing AMD instances a
\* plan for 1 AMD instance is rejected with "only 0 available"; 0 AMD and 4
\* ARM OCPUs on zero usage is approved.
C4_RejectsIffRuleBreached ==
    OciValidated =>
        /\ OciRejected <=> (OciBreachCount >= 1)
        /\ OciApproved <=> (OciBreachCount = 0)
        /\ (ExistingAmd = 2 /\ Plan.amd_micro_instance_count = 1) =>
              (OciRejected /\ Says(oci_raised.message, " AMD instances, only ", "0", " available."))
        /\ (Plan.amd_micro_instance_count = 0 /\ SumSeq(Plan.arm_flex_ocpus_per_instance) = 4 /\ ExistingArmOcpus = 0 /\ ~BreaksAmdCount /\ ~BreaksArmMemory /\ ~BreaksStorage /\ ~BreaksVcnCount) => OciApproved

\* C4 on the tenancies none of whose display names holds "|".
C4_RejectsIffRuleBreachedSeparatorFree == SeparatorFreeNames => C4_RejectsIffRuleBreached

\* A plan within every rule on the tenancy's real usage is refused, or one
\* beyond a rule is approved.
C4_Divergence ==
    /\ OciValidated
    /\ \/ OciApproved /\ BreaksStorage
       \/ ~OciApproved /\ OciBreachCount = 0

\* C5: a plan that breaches k >= 1 of the five rules is rejected with exactly
\* k messages, one for each breached rule.
C5_OneMessagePerBreachedRule ==
    (OciValidated /\ OciBreachCount >= 1) =>
        /\ OciRejected
        /\ MessageCount(oci_raised.message) = OciBreachCount
        /\ BreaksAmdCount <=> Mentions(oci_raised.message, " AMD instances, only ")
        /\ BreaksArmOcpus <=> Mentions(oci_raised.message, " ARM OCPUs, only ")
        /\ BreaksArmMemory <=> Mentions(oci_raised.message, "GB ARM memory, only ")
        /\ BreaksStorage <=> Mentions(oci_raised.message, "GB storage, only ")
        /\ BreaksVcnCount <=> Mentions(oci_raised.message, "Existing VCN count already exceeds free-tier VCN limit.")

\* C5 on the tenancies none of whose display names holds "|".
C5_OneMessagePerBreachedRuleSeparatorFree == SeparatorFreeNames => C5_OneMessagePerBreachedRule

\* All five rules breached at once, five messages.
C5_AllFiveReported == OciRejected /\ OciBreachCount = 5 /\ MessageCount(oci_raised.message) = 5

\* The GCP validator has just returned to its caller.
GcpValidatorReturned == gcp_cmd \in {"call", "validate"} \/ (gcp_cmd = "deploy" /\ gcp_pc = "prepare")

RunOrder == <<"mkdir", "context", "inventory", "plan", "validate", "ssh_keys", "write", "deploy">>
StepKind(step) == IF step \in {"plan_from_existing", "plan_custom", "plan_maximum"} THEN "plan" ELSE step
AllTerraformFiles == {"provider.tf", "variables.tf", "data_sources.tf", "main.tf", "block_volumes.tf", "cloud-init.yaml"}

\* C9: in every run the steps occur in the order inventory, planning,
\* validation, writing, optional terraform; a run whose plan fails
\* validation ends there with no file written and no terraform command
\* started; whatever the runtime options, nothing is written or deployed
\* unless validation ran and approved the plan.
C9_ValidationBeforeAnyWrite ==
    (oci_mode = "run") =>
        /\ Len(oci_trace) <= Len(RunOrder)
        /\ \A i \in DOMAIN oci_trace : StepKind(oci_trace[i]) = RunOrder[i]
        /\ (OciValidated /\ oci_raised.type # "none") => (oci_pc = "done" /\ oci_files = {} /\ oci_ssh.files = {} /\ oci_tf.cmds = <<>>)
        /\ (oci_files # {} \/ oci_tf.cmds # <<>>) =>
              /\ Len(oci_trace) >= 7 /\ oci_trace[5] = "validate"
              /\ oci_files = AllTerraformFiles
              /\ ~BreaksAmdCount /\ ~BreaksVcnCount
        /\ oci_tf.cmds # <<>> => runtime.auto_deploy
        /\ (oci_pc = "done" /\ oci_raised.type = "none") => (Len(oci_trace) >= 7 /\ oci_trace[5] = "validate")

C9_Witness ==
    /\ oci_mode = "run" /\ runtime.auto_deploy /\ runtime.non_interactive /\ ~runtime.strict_provider_parity
    /\ OciRejected /\ oci_pc = "done"
    /\ oci_files = {} /\ oci_tf.cmds = <<>>

\* A run that went through to terraform apply.
C9_DeployedRun == oci_mode = "run" /\ oci_pc = "done" /\ oci_raised.type = "none" /\ Len(oci_tf.cmds) = 3 /\ oci_trace[4] = "plan_custom"

(***************************************************************************)
(* Properties of the OCI planners                                          *)
(***************************************************************************)
\* The plan in hand was returned by the named planner.
PlannedBy(step) == planned # <<>> /\ \E k \in DOMAIN oci_trace : oci_trace[k] = step

\* C11: every plan returned by _plan_custom has a summed ARM OCPU count of at
\* most 4 - (OCPUs of the existing ARM instances) and a summed ARM memory of
\* at most 24 - (memory of the existing ARM instances).
C11_CustomWithinArmBudget ==
    PlannedBy("plan_custom") =>
        /\ SumSeq(Plan.arm_flex_ocpus_per_instance) <= 4 - ExistingArmOcpus
        /\ SumSeq(Plan.arm_flex_memory_per_instance) <= 24 - ExistingArmMemory

\* Two instances planned on an unused allowance: the first takes all four
\* OCPUs and the second is still given one.
C11_SecondInstanceOverBudget ==
    /\ PlannedBy("plan_custom") /\ ExistingArmOcpus = 0 /\ ExistingArmMemory = 0
    /\ Plan.arm_flex_ocpus_per_instance = <<4, 1>>
    /\ Plan.arm_flex_memory_per_instance = <<24, 1>>

\* C12: in every plan returned by _plan_custom each ARM instance's memory is
\* at most 6 GB per OCPU of that instance.
C12_CustomMemoryWithinRatio ==
    PlannedBy("plan_custom") =>
        \A i \in DOMAIN Plan.arm_flex_memory_per_instance :
            Plan.arm_flex_memory_per_instance[i] <= 6 * Plan.arm_flex_ocpus_per_instance[i]

\* One OCPU asked for and the most memory the prompt accepts, with memory to spare.
C12_Witness ==
    /\ PlannedBy("plan_custom") /\ ExistingArmMemory = 0
    /\ Plan.arm_flex_instance_count >= 1
    /\ Plan.arm_flex_ocpus_per_instance[1] = 1
    /\ Plan.arm_flex_memory_per_instance[1] = 6

\* C13 as stated: the plan returned by _plan_custom has an AMD count of at
\* most 2 - (number of existing AMD instances), also when the inventory holds
\* more than 2 of them.
C13_CustomAmdWithinBudget ==
    PlannedBy("plan_custom") => Plan.amd_micro_instance_count <= 2 - ExistingAmd

\* C13 amended: the AMD count of the plan returned by _plan_custom is between
\* 0 and max(0, 2 - existing AMD instances); it is 0 when the inventory holds
\* 2 or more.
C13_CustomAmdWithinClampedBudget ==
    PlannedBy("plan_custom") =>
        /\ Plan.amd_micro_instance_count >= 0
        /\ Plan.amd_micro_instance_count <= (IF 2 - ExistingAmd > 0 THEN 2 - ExistingAmd ELSE 0)
        /\ Len(Plan.amd_micro_hostnames) = Plan.amd_micro_instance_count

C13_Witness ==
    /\ PlannedBy("plan_custom") /\ ExistingAmd = 3
    /\ Plan.amd_micro_instance_count = 0

\* The most AMD instances the prompt accepts with one in use.
C13_OneLeft == PlannedBy("plan_custom") /\ ExistingAmd = 1 /\ Plan.amd_micro_instance_count = 1

\* The named planner was called (it returned a plan or raised).
PlannerRan(step) == \E k \in DOMAIN oci_trace : oci_trace[k] = step
EmptyInventory == ListInstances(tenancy) = <<>> /\ ListBootVolumes(tenancy) = <<>> /\ ListVolumes(tenancy) = <<>>
ArmImageFound == tenancy.arm_image # None

\* C14: on an empty inventory with an ARM image, _plan_maximum returns 2 AMD
\* instances and one ARM instance of 4 OCPUs, 24 GB and a boot volume of
\* max(47, 200 - 2*50) = 100 GB, so the plan's storage is the 200 GB cap.
C14_MaximumOnEmptyInventory ==
    (PlannerRan("plan_maximum") /\ EmptyInventory /\ ArmImageFound) =>
        /\ planned # <<>>
        /\ Plan.amd_micro_instance_count = 2
        /\ Plan.arm_flex_instance_count = 1
        /\ Plan.arm_flex_ocpus_per_instance = <<4>>
        /\ Plan.arm_flex_memory_per_instance = <<24>>
        /\ Plan.arm_flex_boot_volume_size_gb = <<100>>
        /\ PlanStorage = 200

C14_Witness ==
    /\ PlannedBy("plan_maximum") /\ EmptyInventory /\ ArmImageFound
    /\ Plan.amd_micro_boot_volume_size_gb = 50 /\ PlanStorage = 200

\* The validator has just run on the plan _plan_maximum returned.
MaximumValidated == PlannedBy("plan_maximum") /\ OciValidated

\* C15: for every inventory, the plan returned by _plan_maximum, validated
\* against the same inventory, breaches none of the AMD count, OCPU sum,
\* memory sum and storage rules.
C15_MaximumPlanFits ==
    MaximumValidated =>
        /\ oci_raised.type \in {"none", "ClickException"}
        /\ ~Mentions(oci_raised.message, " AMD instances, only ")
        /\ ~Mentions(oci_raised.message, " ARM OCPUs, only ")
        /\ ~Mentions(oci_raised.message, "GB ARM memory, only ")
        /\ ~Mentions(oci_raised.message, "GB storage, only ")

\* The maximum plan is refused for its storage.
C15_MaximumOverStorage == MaximumValidated /\ SeparatorFreeNames /\ OciRejected /\ BreaksStorage /\ Mentions(oci_raised.message, "GB storage, only ")
\* The maximum plan is refused for its AMD count.
C15_MaximumOverAmd == MaximumValidated /\ OciRejected /\ BreaksAmdCount /\ Plan.amd_micro_instance_count = 0

\* The instances of the tenancy that the inventory keeps, and those running.
IsLiveArm(i) == LiveInstance(i, "VM.Standard.A1.Flex")
LiveArm == SelectSeq(ListInstances(tenancy), IsLiveArm)
RunningCount(shape) == Cardinality({k \in DOMAIN ListInstances(tenancy) : ListInstances(tenancy)[k].lifecycle_state = "RUNNING" /\ ListInstances(tenancy)[k].shape = shape})

\* C16 as stated: under the use-existing strategy, when the ARM class has no
\* existing member the plan holds exactly one default ARM instance of 4 OCPUs and
\* 24 GB if an ARM image was found, and no ARM instance otherwise.
C16_DefaultArmWhenClassEmpty ==
    (PlannerRan("plan_from_existing") /\ LiveArm = <<>>) =>
        /\ planned # <<>>
        /\ IF ArmImageFound
           THEN Plan.arm_flex_instance_count = 1 /\ Plan.arm_flex_ocpus_per_instance = <<4>> /\ Plan.arm_flex_memory_per_instance = <<24>>
           ELSE Plan.arm_flex_instance_count = 0 /\ Plan.arm_flex_ocpus_per_instance = <<>> /\ Plan.arm_flex_memory_per_instance = <<>>

\* C16 amended: the default ARM instance of 4 OCPUs and 24 GB is planned
\* when the inventory holds no instance of either class and an ARM image was
\* found; with no ARM instance but an AMD instance, or without an ARM image,
\* the plan holds no ARM instance.
C16_DefaultArmWhenNoInstanceAtAll ==
    (PlannerRan("plan_from_existing") /\ LiveArm = <<>>) =>
        /\ planned # <<>>
        /\ IF ArmImageFound /\ ExistingAmd = 0
           THEN Plan.arm_flex_instance_count = 1 /\ Plan.arm_flex_ocpus_per_instance = <<4>> /\ Plan.arm_flex_memory_per_instance = <<24>>
           ELSE Plan.arm_flex_instance_count = 0 /\ Plan.arm_flex_ocpus_per_instance = <<>> /\ Plan.arm_flex_memory_per_instance = <<>>

\* An ARM image, no ARM instance, one AMD instance: no ARM instance planned.
C16_NoDefaultBesideAmd == PlannedBy("plan_from_existing") /\ LiveArm = <<>> /\ ArmImageFound /\ ExistingAmd = 1 /\ Plan.arm_flex_instance_count = 0
\* The default instance, on a tenancy without instances.
C16_DefaultSynthesized == PlannedBy("plan_from_existing") /\ LiveArm = <<>> /\ ArmImageFound /\ ExistingAmd = 0 /\ Plan.arm_flex_ocpus_per_instance = <<4>>

\* C17: under the use-existing strategy with at least one existing instance
\* the planned count of each class is the number of running instances of
\* the class, and each planned ARM instance has the hostname, OCPUs and
\* memory of the corresponding existing instance.
C17_ExistingCopied ==
    (PlannerRan("plan_from_existing") /\ ExistingAmd + Len(LiveArm) >= 1) =>
        /\ planned # <<>>
        /\ Plan.amd_micro_instance_count = RunningCount("VM.Standard.E2.1.Micro")
        /\ Plan.arm_flex_instance_count = RunningCount("VM.Standard.A1.Flex")
        /\ Plan.arm_flex_hostnames = [k \in DOMAIN LiveArm |-> LiveArm[k].display_name]
        /\ Plan.arm_flex_ocpus_per_instance = [k \in DOMAIN LiveArm |-> LiveArm[k].ocpus]
        /\ Plan.arm_flex_memory_per_instance = [k \in DOMAIN LiveArm |-> LiveArm[k].memory_in_gbs]

\* C17 with every instance that is not TERMINATED counted, on the tenancies
\* none of whose display names holds "|".
C17_NotTerminatedCopiedSeparatorFree ==
    (SeparatorFreeNames /\ PlannerRan("plan_from_existing") /\ ExistingAmd + Len(LiveArm) >= 1) =>
        /\ planned # <<>>
        /\ Plan.amd_micro_instance_count = ExistingAmd
        /\ Plan.arm_flex_instance_count = Len(LiveArm)
        /\ Plan.arm_flex_hostnames = [k \in DOMAIN LiveArm |-> LiveArm[k].display_name]
        /\ Plan.arm_flex_ocpus_per_instance = [k \in DOMAIN LiveArm |-> LiveArm[k].ocpus]
        /\ Plan.arm_flex_memory_per_instance = [k \in DOMAIN LiveArm |-> LiveArm[k].memory_in_gbs]

\* A stopped ARM instance is planned as if it were running.
C17_StoppedCounted == PlannedBy("plan_from_existing") /\ Plan.arm_flex_instance_count = 2 /\ RunningCount("VM.Standard.A1.Flex") = 1
\* The planner raises on an ARM display name that holds "|".
C17_NoPlanForPipedName == PlannerRan("plan_from_existing") /\ tenancy.arm = "piped-name" /\ planned = <<>> /\ oci_raised.type = "ValueError"

\* C18: every PlannedConfig returned by one of the three planners has its
\* five ARM lists (OCPUs, memory, boot sizes, hostnames, block sizes) of
\* length arm_flex_instance_count.
C18_ArmListLengths ==
    (PlannedBy("plan_from_existing") \/ PlannedBy("plan_custom") \/ PlannedBy("plan_maximum")) =>
        /\ Plan.arm_flex_instance_count >= 0
        /\ Len(Plan.arm_flex_ocpus_per_instance) = Plan.arm_flex_instance_count
        /\ Len(Plan.arm_flex_memory_per_instance) = Plan.arm_flex_instance_count
        /\ Len(Plan.arm_flex_boot_volume_size_gb) = Plan.arm_flex_instance_count
        /\ Len(Plan.arm_flex_hostnames) = Plan.arm_flex_instance_count
        /\ Len(Plan.arm_block_volume_sizes) = Plan.arm_flex_instance_count

C18_Witness ==
    /\ PlannedBy("plan_custom") /\ Plan.arm_flex_instance_count = 2
    /\ Len(Plan.arm_block_volume_sizes) = 2 /\ Len(Plan.arm_flex_hostnames) = 2

\* The ARM lists of the plan in hand do not all have arm_flex_instance_count elements.
Malformed(p) ==
    \/ Len(p.arm_flex_ocpus_per_instance) # p.arm_flex_instance_count
    \/ Len(p.arm_flex_memory_per_instance) # p.arm_flex_instance_count
    \/ Len(p.arm_flex_boot_volume_size_gb) # p.arm_flex_instance_count
    \/ Len(p.arm_flex_hostnames) # p.arm_flex_instance_count
    \/ Len(p.arm_block_volume_sizes) # p.arm_flex_instance_count
Rendered == oci_trace # <<>> /\ oci_trace[Len(oci_trace)] = "write"

\* C19: a PlannedConfig whose ARM lists do not all have
\* arm_flex_instance_count elements fails fast with an assertion when handed
\* to the validator or to the renderer: it is never approved and never
\* written out as Terraform files.
C19_MalformedPlanFailsFast ==
    (planned # <<>> /\ Malformed(Plan)) =>
        /\ OciValidated => oci_raised.type = "AssertionError"
        /\ Rendered => oci_raised.type = "AssertionError"
        /\ ~OciApproved
        /\ oci_files = {}

\* A plan of 2 ARM instances over one-element lists is approved.
C19_MalformedApproved == planned # <<>> /\ Malformed(Plan) /\ Plan.arm_flex_instance_count = 2 /\ OciApproved
\* The same plan is written out.
C19_MalformedRendered == planned # <<>> /\ Malformed(Plan) /\ Plan.arm_flex_instance_count = 2 /\ Rendered /\ oci_files = AllTerraformFiles /\ oci_raised.type = "none"

AllDicts(list) == \A i \in DOMAIN list : HasGet(list[i])
\* The inventory fetch of either package has ended.
GcpInventoryDone == gcp_cmd = "inventory" /\ gcp_pc = "done"
OciInventoried == oci_trace # <<>> /\ oci_trace[Len(oci_trace)] = "inventory"

\* C20: an inventory fetch never propagates an exception: when the query of
\* a class fails the fetch still completes, with that class's collection
\* empty.
C20_InventoryNeverRaises ==
    /\ (gcp_cmd = "inventory") =>
          /\ gcp_raised = "none"
          /\ \A c \in gcp_inv.failed : gcp_inv.inv[c] = {}
    /\ GcpInventoryDone => (gcp_inv.step = Len(InventoryClasses) /\ gcp_exit = <<0>>)
    /\ OciInventoried => (oci_raised.type = "none" /\ oci_pc = "plan")

\* run_full_inventory of the GCP package alone: a failed query is swallowed
\* and leaves its class empty; the fetch raises only where the SDK fallback's
\* instance objects are asked for their name.
C20_GcpFailedQuerySwallowed ==
    /\ (gcp_cmd = "inventory") =>
          /\ gcp_raised \in {"none", "AttributeError"}
          /\ gcp_raised = "AttributeError" => \E q \in gcp_inv.queries : q.class = "instances" /\ q.fallback /\ ~AllDicts(q.sdk)
          /\ \A c \in gcp_inv.failed : gcp_inv.inv[c] = {}
    /\ (GcpInventoryDone /\ gcp_raised = "none") => (gcp_inv.step = Len(InventoryClasses) /\ gcp_exit = <<0>>)

\* A GCP query leaves the collections of the other classes as they were.
C20_GcpOtherClassesUnaffected ==
    [][(gcp_pc = "inventory") => \A k \in DOMAIN InventoryClasses : k # gcp_inv.step + 1 => gcp_inv'.inv[InventoryClasses[k]] = gcp_inv.inv[InventoryClasses[k]]]_vars

\* Every GCP query failed and the fetch completed with nothing in it.
C20_GcpAllFailed == GcpInventoryDone /\ Cardinality(gcp_inv.failed) = 8 /\ \A c \in DOMAIN gcp_inv.inv : gcp_inv.inv[c] = {}
\* A failing list call of the OCI SDK ends the OCI inventory with the SDK's exception.
C20_OciInventoryRaised == OciInventoried /\ oci_raised.type = "ServiceError" /\ oci_pc = "done"

(***************************************************************************)
(* Properties of rendering, the validators' purity, inventory fallback,    *)
(* authentication, deployment and key generation                           *)
(***************************************************************************)
\* The renders written to terraform_dir so far, and what each was rendered from.
Renders == oci_host.renders
SameInput(a, b) == a.strict_provider_parity = b.strict_provider_parity /\ a.ctx = b.ctx /\ a.planned = b.planned
Unstamped == AllTerraformFiles \ {"provider.tf", "variables.tf"}

\* C21: two renders of the same input (same context, same PlannedConfig,
\* same options), made at any two moments, give byte-identical content for
\* every generated file.
C21_RenderIdempotent ==
    \A i, j \in DOMAIN Renders :
        SameInput(Renders[i], Renders[j]) => Renders[i].files = Renders[j].files

\* Two runs a second apart render the same input into different provider.tf and variables.tf.
C21_StampDiffers ==
    /\ Len(Renders) = 2 /\ SameInput(Renders[1], Renders[2])
    /\ Renders[1].files["provider.tf"] # Renders[2].files["provider.tf"]
    /\ Renders[1].files["variables.tf"] # Renders[2].files["variables.tf"]

\* The files that carry no "# Generated:" line are the same in any two renders.
C21_UnstampedFilesIdentical ==
    \A i, j \in DOMAIN Renders : \A name \in Unstamped : Renders[i].files[name] = Renders[j].files[name]

\* What the four rules give for the arguments under the table as the module builds it.
ErrorsFor(args, storage_region) ==
    IF args.allow_paid THEN <<>>
    ELSE MachineTypeCheck(args.machine_type, GCPFreeTierLimits) \o RegionCheck(args.region, GCPFreeTierLimits)
         \o DiskCheck(args.disk_size, GCPFreeTierLimits) \o StorageRegionCheck(storage_region, GCPFreeTierLimits)
GcpValidatorStep == GcpReady /\ gcp_cmd' \in {"call", "validate", "deploy"}
OciValidatorStep == oci_pc = "validate" /\ oci_trace' = Append(oci_trace, "validate")

NamesOf(list) == {list[i].name : i \in DOMAIN list}
FallbackRule(q) ==
    /\ q.fallback <=> ~q.gcloud.ok
    /\ gcp_raised = "none"
    /\ q.fallback => gcp_inv.inv[q.class] = NamesOf(q.sdk)
    /\ (q.gcloud.ok /\ q.gcloud.data = <<>>) => (~q.fallback /\ gcp_inv.inv[q.class] = {})
    /\ (~q.gcloud.ok /\ q.sdk = <<>>) => gcp_inv.inv[q.class] = {}

\* C23: run_full_inventory calls the SDK fallback for instances (and for
\* buckets) exactly when the gcloud query of that class gave None; what the
\* SDK lists then fills the collection, keyed by name; an empty gcloud list
\* does not trigger the fallback; with gcloud and the SDK both unavailable
\* the collection is empty.
C23_SdkFallback == \A q \in gcp_inv.queries : FallbackRule(q)

\* C23 when the fallback hands back dicts, as the tests make it do.
C23_SdkFallbackOfDicts == \A q \in gcp_inv.queries : AllDicts(q.sdk) => FallbackRule(q)

\* gcloud unavailable, the SDK lists an instance: the name lookup raises and nothing is filed.
C23_FallbackRaised ==
    /\ gcp_cmd = "inventory" /\ gcp_pc = "done" /\ gcp_raised = "AttributeError" /\ gcp_exit = <<1>>
    /\ \E q \in gcp_inv.queries : q.class = "instances" /\ q.fallback /\ q.sdk # <<>> /\ gcp_inv.inv["instances"] = {}

\* The fallback of dicts filed under their names; the bucket fallback likewise.
C23_FallbackFiled ==
    /\ gcp_cmd = "inventory" /\ gcp_pc = "done" /\ gcp_raised = "none"
    /\ \A c \in {"instances", "buckets"} : \E q \in gcp_inv.queries : q.class = c /\ q.fallback /\ gcp_inv.inv[c] = {<<"sdk-1">>}

\* The environment detect_auth_pattern was called in, and the file its
\* configured path (the first of the two variables that is set) leads to.
AuthEnv == gcp_args.env
ConfiguredPath == IF AuthEnv.GCP_CREDENTIALS_FILE \notin {None, ""} THEN AuthEnv.GCP_CREDENTIALS_FILE ELSE AuthEnv.GOOGLE_APPLICATION_CREDENTIALS
ConfiguredFile == IF ConfiguredPath = "/gcp.json" THEN AuthEnv.gcp_json ELSE IF ConfiguredPath = "/gac.json" THEN AuthEnv.gac_json ELSE Missing
ImpersonationSet == AuthEnv.GCP_IMPERSONATE_SERVICE_ACCOUNT \notin {None, ""}

\* C24: detect_auth_pattern resolves by strict precedence.  An existing
\* credentials file gives 'sa_key' when its JSON type is service_account and
\* 'wif' otherwise (an unparsable file too), whatever the impersonation
\* variable and the metadata server; else a set impersonation variable
\* gives 'impersonation' with no metadata probe; else 'metadata_server' when
\* the probe succeeds; else 'adc'.  A configured path with no file behind it
\* falls through without raising.
C24_AuthPrecedence ==
    (gcp_cmd = "detect_auth") =>
        /\ gcp_raised = "none"
        /\ ConfiguredFile.exists =>
              /\ gcp_auth.pattern = (IF ConfiguredFile.json = "dict" /\ ConfiguredFile.type = "service_account" THEN "sa_key" ELSE "wif")
              /\ ~gcp_auth.probed
        /\ (~ConfiguredFile.exists /\ ImpersonationSet) => (gcp_auth.pattern = "impersonation" /\ ~gcp_auth.probed)
        /\ (~ConfiguredFile.exists /\ ~ImpersonationSet) =>
              /\ gcp_auth.probed
              /\ gcp_auth.pattern = (IF AuthEnv.metadata_answers THEN "metadata_server" ELSE "adc")

\* A service-account key file beside a set impersonation variable on a machine with a metadata server.
C24_Witness ==
    /\ gcp_cmd = "detect_auth" /\ gcp_auth.pattern = "sa_key"
    /\ ConfiguredFile.exists /\ ImpersonationSet /\ AuthEnv.metadata_answers

\* A configured path without a file, impersonation set: no file is read, nothing raised.
C24_MissingFileFallsThrough ==
    /\ gcp_cmd = "detect_auth" /\ gcp_auth.pattern = "impersonation" /\ gcp_raised = "none"
    /\ ConfiguredPath = "/gcp.json" /\ ~ConfiguredFile.exists /\ AuthEnv.gac_json.exists

\* The attempts of `terraform apply` made by this run, and what each gave back.
Applies == oci_tf.outcomes
ApplyCount == Cardinality({i \in DOMAIN oci_tf.cmds : oci_tf.cmds[i] = "apply"})
FailedOutOfCapacity(o) == o.returncode # 0 /\ \E i \in DOMAIN o.output : o.output[i] \in {"out of capacity", "Out of host capacity"}
ApplyEnded == oci_pc = "done" /\ Len(oci_tf.cmds) >= 2 /\ oci_tf.cmds[2] = "plan" /\ ~(oci_raised.type = "ClickException" /\ oci_raised.message = <<"Command failed (terraform ", "plan", ")">>)

\* C25: terraform apply is run again only after a failed attempt whose output
\* matches the out-of-capacity pattern; an attempt that exits 0 ends the loop
\* with success at once; a failure with any other output raises at once; and
\* apply is never invoked more than RETRY_MAX_ATTEMPTS times.
C25_RetryOnlyOutOfCapacity ==
    /\ Len(Applies) = ApplyCount
    /\ \A k \in DOMAIN Applies :
          /\ k < Len(Applies) => FailedOutOfCapacity(Applies[k])
          /\ Applies[k].returncode = 0 => (k = Len(Applies) /\ oci_pc = "done" /\ oci_raised.type = "none")
          /\ (Applies[k].returncode # 0 /\ ~FailedOutOfCapacity(Applies[k])) =>
                (k = Len(Applies) /\ oci_pc = "done" /\ oci_raised = ClickException(<<"terraform apply failed:">>))
    /\ ApplyCount > 0 => ApplyCount <= oci_tf.max_attempts

\* Seven out-of-capacity failures, then an apply that exits 0 while its output mentions capacity.
C25_Witness ==
    /\ ApplyCount = RETRY_MAX_ATTEMPTS /\ oci_pc = "done" /\ oci_raised.type = "none"
    /\ Applies[RETRY_MAX_ATTEMPTS].returncode = 0 /\ Len(Applies[RETRY_MAX_ATTEMPTS].output) > 1

ApplyLoopEntered == oci_pc = "terraform" /\ Len(oci_tf.cmds) >= 2
DidNotSucceed == ClickException(<<"terraform apply did not succeed after ">> \o Str(oci_tf.max_attempts) \o <<" attempts.">>)
ApplyLoopSafe ==
    /\ ApplyEnded =>
          /\ oci_raised.type = "none" <=> (\E k \in DOMAIN Applies : Applies[k].returncode = 0)
          /\ oci_raised.type # "none" => oci_raised.type = "ClickException"
          /\ oci_raised = DidNotSucceed <=> (ApplyCount = oci_tf.max_attempts /\ \A k \in DOMAIN Applies : FailedOutOfCapacity(Applies[k]))
          /\ Len(oci_tf.sleeps) = (IF ApplyCount = 0 THEN 0 ELSE ApplyCount - 1)
    /\ ApplyLoopEntered => (Len(oci_tf.sleeps) = ApplyCount /\ ApplyCount < oci_tf.max_attempts + (IF ApplyCount = 0 THEN 1 ELSE 0))
    /\ \A k \in DOMAIN oci_tf.sleeps : oci_tf.sleeps[k] = RETRY_BASE_DELAY * 2 ^ (k - 1)

\* C26: _run_terraform_apply_with_retries always terminates when every
\* terraform invocation returns.  It ends in success iff some attempt exited
\* 0 and raises otherwise; after exactly RETRY_MAX_ATTEMPTS failures for lack
\* of capacity it raises 'did not succeed after N attempts' with no sleep
\* after the last attempt; the delay before attempt k+1 is
\* RETRY_BASE_DELAY * 2^(k-1) seconds.
C26_ApplyTerminates == []ApplyLoopSafe /\ (ApplyLoopEntered ~> ApplyEnded)

\* All RETRY_MAX_ATTEMPTS attempts failed for lack of capacity: seven sleeps, the last of 960 s.
C26_Witness ==
    /\ ApplyEnded /\ oci_tf.max_attempts = RETRY_MAX_ATTEMPTS /\ oci_raised = DidNotSucceed
    /\ ApplyCount = RETRY_MAX_ATTEMPTS /\ Len(oci_tf.sleeps) = RETRY_MAX_ATTEMPTS - 1
    /\ oci_tf.sleeps[RETRY_MAX_ATTEMPTS - 1] = RETRY_BASE_DELAY * 64

\* The terraform commands run so far by the program under way, and their return codes.
GcpCmds == [k \in DOMAIN gcp_tf |-> gcp_tf[k].cmd]
InitPlanApplies(cmds) == \A k \in DOMAIN cmds : cmds[k] = (IF k = 1 THEN "init" ELSE IF k = 2 THEN "plan" ELSE "apply")
GcpDeployOrdered ==
    gcp_tf # <<>> =>
        /\ gcp_cmd = "deploy" /\ gcp_args.auto_deploy
        /\ Len(gcp_tf) <= 3 /\ InitPlanApplies(GcpCmds)
        /\ \A k \in DOMAIN gcp_tf : k < Len(gcp_tf) => gcp_tf[k].returncode = 0
        /\ gcp_tf[Len(gcp_tf)].returncode # 0 => (gcp_pc = "done" /\ gcp_exit = <<gcp_tf[Len(gcp_tf)].returncode>>)
OciDeployOrdered ==
    oci_tf.cmds # <<>> =>
        /\ runtime.auto_deploy /\ oci_mode = "run"
        /\ InitPlanApplies(oci_tf.cmds) /\ Len(oci_tf.returncodes) = Len(oci_tf.cmds)

\* C27 as stated: terraform runs only under auto-deploy, in the order init,
\* plan, apply; a command is started only after every earlier command exited
\* 0, and the first non-zero exit aborts the deployment (OCI raises, GCP
\* exits with the return code), so apply never runs after a failed init or plan.
C27_EveryEarlierCommandSucceeded ==
    /\ GcpDeployOrdered
    /\ OciDeployOrdered
    /\ \A k \in DOMAIN oci_tf.cmds : k < Len(oci_tf.cmds) => oci_tf.returncodes[k] = 0
    /\ \A k \in DOMAIN oci_tf.cmds : oci_tf.returncodes[k] # 0 => (oci_pc = "done" /\ oci_raised.type = "ClickException")

\* C27, amended: as stated but for the OCI retry loop, where an apply that
\* failed for lack of capacity is followed by another apply; init and plan
\* have exited 0 before any later command starts, and every other non-zero
\* exit aborts the deployment.
C27_InitPlanSucceededBeforeApply ==
    /\ GcpDeployOrdered
    /\ OciDeployOrdered
    /\ \A k \in DOMAIN oci_tf.cmds : k < Len(oci_tf.cmds) =>
          \/ oci_tf.returncodes[k] = 0
          \/ oci_tf.cmds[k] = "apply" /\ oci_tf.cmds[k + 1] = "apply" /\ FailedOutOfCapacity(oci_tf.outcomes[k - 2])
    /\ \A k \in DOMAIN oci_tf.cmds : (oci_tf.returncodes[k] # 0 /\ k = Len(oci_tf.cmds)) =>
          \/ oci_pc = "done" /\ oci_raised.type = "ClickException"
          \/ oci_pc = "terraform" /\ oci_tf.cmds[k] = "apply" /\ FailedOutOfCapacity(oci_tf.outcomes[k - 2]) /\ k - 2 < oci_tf.max_attempts
    /\ \A k \in DOMAIN oci_tf.cmds : oci_tf.cmds[k] = "apply" => (oci_tf.returncodes[1] = 0 /\ oci_tf.returncodes[2] = 0)

\* terraform plan failed in an OCI run: the run has raised and apply was not started.
C27_Witness ==
    /\ oci_tf.cmds = <<"init", "plan">> /\ oci_tf.returncodes[1] = 0 /\ oci_tf.returncodes[2] # 0
    /\ oci_pc = "done" /\ oci_raised = ClickException(<<"Command failed (terraform ", "plan", ")">>)

\* terraform plan exited 2 in a GCP deploy: the process has exited with 2 and apply was not started.
C27_GcpPlanFailed == Len(gcp_tf) = 2 /\ gcp_tf[2] = [cmd |-> "plan", returncode |-> 2] /\ gcp_pc = "done" /\ gcp_exit = <<2>>
\* An apply started after an apply that exited non-zero.
C27_ApplyRetried == Len(oci_tf.cmds) = 4 /\ oci_tf.returncodes[3] # 0

\* C28: every plan _plan_maximum returns is well-formed, whatever the
\* inventory: the AMD count is at least 0 and each planned flexible instance
\* has at least 1 OCPU, at least 1 GB of memory and a boot volume of at
\* least 47 GB, also when the existing ARM instances have used up the
\* memory budget but not the OCPU budget.
C28_MaximumWellFormed ==
    PlannedBy("plan_maximum") =>
        /\ Plan.amd_micro_instance_count >= 0
        /\ \A i \in DOMAIN Plan.arm_flex_ocpus_per_instance : Plan.arm_flex_ocpus_per_instance[i] >= 1
        /\ \A i \in DOMAIN Plan.arm_flex_memory_per_instance : Plan.arm_flex_memory_per_instance[i] >= 1
        /\ \A i \in DOMAIN Plan.arm_flex_boot_volume_size_gb : Plan.arm_flex_boot_volume_size_gb[i] >= FREE_TIER_MIN_BOOT_VOLUME_GB

\* One existing ARM instance of 2 OCPUs and 24 GB: the plan holds an ARM
\* instance of 2 OCPUs and 0 GB, and the validator approves it.
C28_ZeroMemoryApproved ==
    /\ PlannedBy("plan_maximum") /\ tenancy.arm = "memory-full" /\ OciApproved
    /\ Plan.arm_flex_ocpus_per_instance = <<2>> /\ Plan.arm_flex_memory_per_instance = <<0>>

\* The other three bounds hold on every plan _plan_maximum returns.
C28_MaximumWellFormedButMemory ==
    PlannedBy("plan_maximum") =>
        /\ Plan.amd_micro_instance_count >= 0
        /\ \A i \in DOMAIN Plan.arm_flex_ocpus_per_instance : Plan.arm_flex_ocpus_per_instance[i] >= 1
        /\ \A i \in DOMAIN Plan.arm_flex_boot_volume_size_gb : Plan.arm_flex_boot_volume_size_gb[i] >= FREE_TIER_MIN_BOOT_VOLUME_GB

\* The existing usage of the tenancy is within the five free-tier caps.
WithinFreeTierCaps ==
    /\ ExistingAmd <= FREE_TIER_MAX_AMD_INSTANCES
    /\ ExistingArmOcpus <= FREE_TIER_MAX_ARM_OCPUS
    /\ ExistingArmMemory <= FREE_TIER_MAX_ARM_MEMORY_GB
    /\ ExistingStorage <= FREE_TIER_MAX_STORAGE_GB
    /\ ExistingVcns <= FREE_TIER_MAX_VCNS
\* A run of the workflow that takes the use-existing strategy unasked.
UseExistingRun == oci_mode = "run" /\ (runtime.non_interactive \/ runtime.auto_use_existing)
\* The validator has run at some point of this run.
ValidatorRan == PlannerRan("validate")

\* C29: in a non-interactive or auto-use-existing run on an inventory whose
\* existing usage is within the free-tier caps, the plan of the use-existing
\* strategy passes the validator against that inventory: the validator does
\* not raise, and the run does not end between validation and the
\* generation of the files.
C29_UseExistingPlanPasses ==
    (UseExistingRun /\ WithinFreeTierCaps /\ PlannedBy("plan_from_existing") /\ ValidatorRan) =>
        /\ OciValidated => OciApproved
        /\ oci_pc = "done" => PlannerRan("write")

\* Two existing AMD instances and nothing else, which is within the caps:
\* the plan copies the two, the validator counts them against a budget of
\* 2 - 2 = 0 and the run ends before any file is written.
C29_ExistingAmdRefused ==
    /\ UseExistingRun /\ WithinFreeTierCaps /\ tenancy.amd = 2 /\ tenancy.arm = "none" /\ tenancy.volumes = "none"
    /\ PlannedBy("plan_from_existing") /\ OciRejected /\ oci_pc = "done" /\ oci_files = {}
    /\ Plan.amd_micro_instance_count = 2
    /\ Mentions(oci_raised.message, " AMD instances, only ")

\* With no existing instance and no existing volume the plan of the
\* use-existing strategy does pass.
C29_PassesOnEmptyInventory ==
    (UseExistingRun /\ PlannedBy("plan_from_existing") /\ ValidatorRan
        /\ ExistingAmd = 0 /\ ExistingArmOcpus = 0 /\ ExistingStorage = 0) =>
        /\ OciValidated => OciApproved
        /\ oci_pc = "done" => PlannerRan("write")

\* Both files of the key pair are in the key directory.
BothKeyFiles(host) == SshKeyFiles \subseteq DOMAIN host.keys
\* The step of a run that calls _generate_ssh_keys.
KeyGenerationStep == oci_pc = "ssh" /\ oci_pc' = "write"

\* C30: _generate_ssh_keys never replaces an existing key pair.  A step taken
\* when both id_rsa and id_rsa.pub exist leaves both files as they are, in
\* this run and in every later one; the files change only in a call of
\* _generate_ssh_keys that finds at least one of them missing, which writes
\* one new pair into both (over the single file that may be there); after
\* every call both files exist.
C30_KeyPairNeverReplaced ==
    [][ /\ BothKeyFiles(oci_host) => oci_host'.keys = oci_host.keys
        /\ oci_host'.keys # oci_host.keys =>
              /\ KeyGenerationStep
              /\ ~BothKeyFiles(oci_host)
              /\ oci_host'.keys = [f \in SshKeyFiles |-> oci_host.run]
        /\ KeyGenerationStep => BothKeyFiles(oci_host')
      ]_vars

\* The second run on a machine has called _generate_ssh_keys and the pair in
\* place is the one the first run wrote over a lone id_rsa.
C30_Witness ==
    /\ oci_host.run = 2 /\ PlannerRan("ssh_keys")
    /\ oci_ssh.found = SshKeyFiles
    /\ oci_host.keys = [f \in SshKeyFiles |-> 1]

\* A pair that was there before the first run is still there after it.
C30_FoundPairKept ==
    /\ oci_host.run = 1 /\ PlannerRan("ssh_keys")
    /\ oci_host.keys = [f \in SshKeyFiles |-> 0]

====
